---- MODULE Spec2Model ----
(***************************************************************************)
(* Model of Core/Utilities/ExecutorDispatcher.py: the ExecutorState and    *)
(* ExecutorQueues containers and the ExecutorDispatcher that coordinates   *)
(* them.                                                                   *)
(*                                                                         *)
(* Every method is an operator from a state record d to the state record   *)
(* the method leaves behind.  Besides the objects' fields, d carries       *)
(*   ret : the value the method returned,                                  *)
(*   exc : the exception that is propagating (NoExc when none),            *)
(*   log : the callbacks invoked so far by the running API call.           *)
(* An operator applied to a record whose exc is set returns it unchanged:  *)
(* this is how a raise skips the rest of every caller.                     *)
(*                                                                         *)
(* taskIds and eIds are positive integers, executor types are strings.     *)
(* Fields that nothing reads (lastUse, frozenTime, frozenMessage,          *)
(* sendTime, the monitor) are left out.                                    *)
(***************************************************************************)
EXTENDS Integers, Sequences, FiniteSets, TLC

\* ---------------------------------------------------------------- bounds
NumTasks == 2        \* taskIds 1..NumTasks
NumExecs == 2        \* eIds 1..NumExecs
MaxCap == 2          \* maxTasks given to addExecutor: 0..MaxCap
MaxSteps == 4        \* Spec: runs of at most MaxSteps calls
FrzTasks == 1        \* SpecFreeze: taskIds 1..FrzTasks
FrzTicks == 10       \* SpecFreeze: the clock is advanced at most FrzTicks times
MaxPushes == 4       \* SpecQueues: pushTask calls that queue a task
ReuseSteps == 8      \* SpecReuse: runs of at most ReuseSteps calls
NumThreads == 2      \* SpecConc: threads 1..NumThreads
ConcCalls == 4       \* SpecConc: runs of at most ConcCalls calls
TripSteps == 6       \* SpecTrip: runs of at most TripSteps calls
HappyAdds == 3       \* SpecHappy: addTask is called at most HappyAdds times
HappyStages == 2     \* SpecHappy: cbDispatch ends a path after HappyStages stages
SweepCalls == 5      \* SpecSweep: runs of at most SweepCalls calls
SweepTicks == 2      \* SpecSweep: the clock is advanced at most SweepTicks times

Tasks == 1..NumTasks
Executors == 1..NumExecs
Threads == 1..NumThreads
Types == {"A", "B"}
Objs == {1}

\* Python's None / False for a taskId, an eId, an executor type, a taskObj
NoTask == 0
NoExec == 0
NoType == "none"
NoObj == 0

\* ------------------------------------------------------- program constants
FreezeLimit == 10
FreezeAge == 300

\* the clock advances by more than the defrost age at once
TickLen == FreezeAge + 1

\* ---------------------------------------------------------------- state
VARIABLES
  idMap,          \* ExecutorDispatcher.__idMap      eId -> eType
  execTypes,      \* ExecutorDispatcher.__execTypes  eType -> number connected
  tasks,          \* ExecutorDispatcher.__tasks      taskId -> ETask
  taskFreezer,    \* ExecutorDispatcher.__taskFreezer  list of taskId
  failedOnTooFrozen, freezeOnFailedDispatch, freezeOnUnknownExecutor,
  typeToId,       \* ExecutorState.__typeToId   eType -> set of eId
  maxTasks,       \* ExecutorState.__maxTasks   eId -> capacity
  execTasks,      \* ExecutorState.__execTasks  eId -> set of taskId
  taskInExec,     \* ExecutorState.__taskInExec taskId -> eId
  queues,         \* ExecutorQueues.__queues      eType -> list of taskId
  taskInQueue,    \* ExecutorQueues.__taskInQueue taskId -> eType
  now,            \* time.time()
  steps,          \* calls made so far
  pushStamp,      \* history: taskId -> number of the push that queued it
  pushCount,      \* history: pushes made so far
  aheadUsed,      \* history: types that had an ahead = True push
  raisedBefore,   \* history: some call so far ended by an exception
  tripLog,        \* history: taskId -> how often it was sent and reported
  reported,       \* history: the report made last, and a bit every report flips
  thr             \* SpecConc: where each thread is in the call it runs

objVars == <<idMap, execTypes, tasks, taskFreezer, failedOnTooFrozen,
             freezeOnFailedDispatch, freezeOnUnknownExecutor, typeToId,
             maxTasks, execTasks, taskInExec, queues, taskInQueue>>
histVars == <<pushStamp, pushCount, aheadUsed, raisedBefore, tripLog, reported, thr>>
vars == <<objVars, now, steps, histVars>>

\* ------------------------------------------------------------- dict helpers
Put(f, k, v) == [x \in (DOMAIN f) \cup {k} |-> IF x = k THEN v ELSE f[x]]
Drop(f, k) == [x \in (DOMAIN f) \ {k} |-> f[x]]
DropAll(f, ks) == [x \in (DOMAIN f) \ ks |-> f[x]]
Emp == [x \in {} |-> 0]
NoReport == [eId |-> NoExec, taskId |-> 0, flip |-> FALSE]
Max(a, b) == IF a >= b THEN a ELSE b
Range(s) == {s[i] : i \in DOMAIN s}
RemoveAt(s, i) == SubSeq(s, 1, i - 1) \o SubSeq(s, i + 1, Len(s))
IndexOf(s, x) == CHOOSE i \in DOMAIN s : s[i] = x /\ \A j \in 1..(i - 1) : s[j] # x
\* all orders in which a set can be iterated
Perms(S) == {p \in [1..Cardinality(S) -> S] : \A i, j \in DOMAIN p : p[i] = p[j] => i = j}
\* the elements of S in the order in which ord lists them
InOrder(ord, S) == SelectSeq(ord, LAMBDA x : x \in S)

\* ------------------------------------------------------- results, exceptions
NoExc == "none"
\* the exception a callback raises
CallbackError == "CallbackError"
RNone == [t |-> "None", v |-> 0]
RBool(b) == [t |-> "bool", v |-> IF b THEN 1 ELSE 0]
RInt(n) == [t |-> "int", v |-> n]
RList(s) == [t |-> "list", v |-> s]
S_OK(v) == [t |-> "S_OK", v |-> v]
S_ERROR == [t |-> "S_ERROR", v |-> 0]
IsOK(r) == r.t = "S_OK"
Ret(d, r) == [d EXCEPT !.ret = r]
Raise(d, e) == [d EXCEPT !.exc = e, !.ret = RNone]
Raised(d) == d.exc # NoExc
Event(cb, taskId, eId, eType, path, ok) ==
  [cb |-> cb, task |-> taskId, exec |-> eId, etype |-> eType, path |-> path, ok |-> ok]
Logged(d, ev) == [d EXCEPT !.log = Append(@, ev)]
\* the callbacks of one kind that a call made for a task
Calls(r, cb, taskId) == {i \in DOMAIN r.log : r.log[i].cb = cb /\ r.log[i].task = taskId}

\* ======================================================== ExecutorState
ES_addExecutor(d, eId, eType, mt) ==
  Ret([d EXCEPT !.maxTasks = Put(@, eId, Max(1, mt)),
                !.execTasks = IF eId \in DOMAIN @ THEN @ ELSE Put(@, eId, {}),
                !.typeToId = Put(@, eType, (IF eType \in DOMAIN @ THEN @[eType] ELSE {}) \cup {eId})],
      RNone)

\* tOrder: the order in which "for taskId in self.__execTasks[ eId ]" runs
ES_removeExecutor(d, eId, tOrder) ==
  LET d1 == [d EXCEPT !.typeToId = [ty \in DOMAIN @ |-> @[ty] \ {eId}]]
  IN  IF eId \notin DOMAIN d.execTasks THEN Raise(d1, "KeyError")
      ELSE LET held == InOrder(tOrder, d.execTasks[eId])
               bad == {i \in DOMAIN held : held[i] \notin DOMAIN d.taskInExec}
           IN  IF bad # {}
               THEN LET first == CHOOSE i \in bad : \A j \in bad : i <= j
                    IN  Raise([d1 EXCEPT !.taskInExec = DropAll(@, {held[j] : j \in 1..(first - 1)})],
                              "KeyError")
               ELSE Ret([d1 EXCEPT !.taskInExec = DropAll(@, Range(held)),
                                   !.execTasks = Drop(@, eId),
                                   !.maxTasks = Drop(@, eId)],
                        RList(held))

ES_full(d, eId) ==
  IF eId \in DOMAIN d.execTasks /\ eId \in DOMAIN d.maxTasks
  THEN Cardinality(d.execTasks[eId]) >= d.maxTasks[eId]
  ELSE TRUE

ES_freeSlots(d, eId) ==
  IF eId \in DOMAIN d.execTasks /\ eId \in DOMAIN d.maxTasks
  THEN d.maxTasks[eId] - Cardinality(d.execTasks[eId])
  ELSE 0

\* eOrder: the order in which "for eId in self.__typeToId[ eType ]" runs;
\* the first executor met with the largest number of free slots wins
ES_getIdleExecutor(d, eType, eOrder) ==
  IF eType \notin DOMAIN d.typeToId THEN NoExec
  ELSE LET ids == InOrder(eOrder, d.typeToId[eType])
           best == {i \in DOMAIN ids :
                      /\ ES_freeSlots(d, ids[i]) > 0
                      /\ \A j \in DOMAIN ids : ES_freeSlots(d, ids[j]) <= ES_freeSlots(d, ids[i])}
       IN  IF best = {} THEN NoExec
           ELSE ids[CHOOSE i \in best : \A j \in best : i <= j]

ES_addTask(d, eId, taskId) ==
  LET d1 == [d EXCEPT !.taskInExec = Put(@, taskId, eId)]
  IN  IF eId \in DOMAIN d.execTasks
      THEN Ret([d1 EXCEPT !.execTasks[eId] = @ \cup {taskId}],
               RInt(Cardinality(d.execTasks[eId] \cup {taskId})))
      ELSE Ret(d1, RInt(0))

ES_getExecutorOfTask(d, taskId) ==
  IF taskId \in DOMAIN d.taskInExec THEN d.taskInExec[taskId] ELSE NoExec

\* a removeTask that takes the executor from taskInExec whatever eId says;
\* C14 tells it from removeTask
ES_removeTask_Indexed(d, taskId, eId) ==
  IF taskId \notin DOMAIN d.taskInExec THEN Ret(d, RBool(FALSE))
  ELSE LET e == d.taskInExec[taskId]
       IN  IF e \notin DOMAIN d.execTasks \/ taskId \notin d.execTasks[e]
           THEN Ret(d, RBool(FALSE))
           ELSE Ret([d EXCEPT !.execTasks[e] = @ \ {taskId},
                              !.taskInExec = Drop(@, taskId)], RBool(TRUE))

\* eId = NoExec is the default eId = None
ES_removeTask(d, taskId, eId) ==
  IF eId = NoExec /\ taskId \notin DOMAIN d.taskInExec THEN Ret(d, RBool(FALSE))
  ELSE LET e == IF eId = NoExec THEN d.taskInExec[taskId] ELSE eId
       IN  IF e \notin DOMAIN d.execTasks \/ taskId \notin d.execTasks[e]
           THEN Ret(d, RBool(FALSE))
           ELSE LET d1 == [d EXCEPT !.execTasks[e] = @ \ {taskId}]
                IN  IF taskId \notin DOMAIN d.taskInExec
                    THEN Ret(d1, RBool(FALSE))
                    ELSE Ret([d1 EXCEPT !.taskInExec = Drop(@, taskId)], RBool(TRUE))

\* ======================================================== ExecutorQueues
\* a pushTask that moves a task that is already queued for eType to the head
\* when ahead is set; C24 tells it from pushTask
EQ_pushTask_Requeued(d, eType, taskId, ahead) ==
  IF taskId \in DOMAIN d.taskInQueue
  THEN IF d.taskInQueue[taskId] # eType
       THEN Ret(d, RInt(0))
       ELSE IF ahead /\ taskId \in Range(d.queues[eType])
       THEN Ret([d EXCEPT !.queues[eType] =
                   <<taskId>> \o RemoveAt(@, IndexOf(@, taskId))],
                RInt(Len(d.queues[eType])))
       ELSE Ret(d, RInt(Len(d.queues[eType])))
  ELSE LET q == IF eType \in DOMAIN d.queues THEN d.queues[eType] ELSE <<>>
           q1 == IF ahead THEN <<taskId>> \o q ELSE Append(q, taskId)
       IN  Ret([d EXCEPT !.queues = Put(@, eType, q1),
                         !.taskInQueue = Put(@, taskId, eType)],
               RInt(Len(q1)))

\* a pushTask that inserts at the head whatever ahead says; C6 tells it from
\* pushTask
EQ_pushTask_AtHead(d, eType, taskId, ahead) ==
  IF taskId \in DOMAIN d.taskInQueue
  THEN IF d.taskInQueue[taskId] # eType
       THEN Ret(d, RInt(0))
       ELSE Ret(d, RInt(Len(d.queues[eType])))
  ELSE LET q == IF eType \in DOMAIN d.queues THEN d.queues[eType] ELSE <<>>
       IN  Ret([d EXCEPT !.queues = Put(@, eType, <<taskId>> \o q),
                         !.taskInQueue = Put(@, taskId, eType)],
               RInt(Len(q) + 1))

EQ_pushTask(d, eType, taskId, ahead) ==
  IF taskId \in DOMAIN d.taskInQueue
  THEN IF d.taskInQueue[taskId] # eType
       THEN Ret(d, RInt(0))
       ELSE Ret(d, RInt(Len(d.queues[eType])))
  ELSE LET q == IF eType \in DOMAIN d.queues THEN d.queues[eType] ELSE <<>>
           q1 == IF ahead THEN <<taskId>> \o q ELSE Append(q, taskId)
       IN  Ret([d EXCEPT !.queues = Put(@, eType, q1),
                         !.taskInQueue = Put(@, taskId, eType)],
               RInt(Len(q1)))

\* ret.v is the popped taskId, NoTask for None
EQ_popTask(d, eType) ==
  IF eType \notin DOMAIN d.queues THEN Ret(d, RInt(NoTask))
  ELSE IF d.queues[eType] = <<>> THEN Ret(d, RInt(NoTask))
  ELSE LET taskId == Head(d.queues[eType])
           d1 == [d EXCEPT !.queues[eType] = Tail(@)]
       IN  IF taskId \notin DOMAIN d.taskInQueue
           THEN Ret(d1, RInt(NoTask))
           ELSE Ret([d1 EXCEPT !.taskInQueue = Drop(@, taskId)], RInt(taskId))

EQ_deleteTask(d, taskId) ==
  IF taskId \notin DOMAIN d.taskInQueue THEN Ret(d, RBool(FALSE))
  ELSE LET eType == d.taskInQueue[taskId]
           d1 == [d EXCEPT !.taskInQueue = Drop(@, taskId)]
       IN  IF taskId \notin Range(d.queues[eType])
           THEN Ret(d1, RBool(FALSE))
           ELSE Ret([d1 EXCEPT !.queues[eType] = RemoveAt(@, IndexOf(@, taskId))], RBool(TRUE))

EQ_waitingTasks(d, eType) ==
  IF eType \in DOMAIN d.queues THEN Len(d.queues[eType]) ELSE 0


\* ======================================================== ExecutorDispatcher
\* A method that goes on after a call is written as a chain of operators, each
\* taking the record the previous step left: "X(Y(d))" is "Y, then X".

\* ExecutorDispatcher.ETask.__init__
ETask(taskObj) ==
  [taskObj |-> taskObj, pathExecuted |-> <<>>, frozenSince |-> 0,
   frozenCount |-> 0, eType |-> NoType, retries |-> 0]

\* what the dispatch callback answers: an executor type, "no more
\* executors" (a false Value) or S_ERROR
Done == "done"
Fail == "fail"
Results == Types \cup {Done, Fail}

\* removeTask calls self.__queues.popTask( taskId ): the queue it names is
\* the one whose eType equals the taskId.  taskIds are not executor types,
\* so that is no queue at all.
QueueNamed(taskId) == NoType

\* return r unless an exception is on its way
Returning(d, r) == IF Raised(d) THEN d ELSE Ret(d, r)

\* __msgTaskToExecutor: the callback is reached only if the task is still in
\* the table (the KeyError of self.__tasks[ taskId ] is caught by the bare
\* except); o.send[eId] is what cbSendTask answers for this executor
MsgTaskToExecutor(d, o, eId, taskId) ==
  IF taskId \notin DOMAIN d.tasks THEN Ret(d, S_ERROR)
  ELSE Ret(Logged(d, Event("sendTask", taskId, eId, NoType, <<>>, o.send[eId])),
           IF o.send[eId] THEN S_OK(0) ELSE S_ERROR)

\* __sendTaskToExecutor after __msgTaskToExecutor: roll back, or report the task
SendAnswered(d, ty, taskId) ==
  IF ~IsOK(d.ret)
  THEN Ret(ES_removeTask(EQ_pushTask(d, ty, taskId, TRUE), taskId, NoExec), S_ERROR)
  ELSE Ret(d, S_OK(taskId))

\* __sendTaskToExecutor after popTask, which returned d.ret.v
SendPopped(d, o, eId, ty) ==
  IF d.ret.v = NoTask THEN Ret(d, S_OK(0))
  ELSE SendAnswered(MsgTaskToExecutor(ES_addTask(d, eId, d.ret.v), o, eId, d.ret.v),
                    ty, d.ret.v)

\* __sendTaskToExecutor; eType = NoType is the default eType = False
SendTaskToExecutor(d, o, eId, eType, checkIdle) ==
  IF Raised(d) THEN d
  ELSE IF checkIdle /\ ES_freeSlots(d, eId) = 0 THEN Ret(d, S_OK(0))
  ELSE IF eType = NoType /\ eId \notin DOMAIN d.idMap THEN Ret(d, S_ERROR)
  ELSE IF eType = NoType
  THEN SendPopped(EQ_popTask(d, d.idMap[eId]), o, eId, d.idMap[eId])
  ELSE SendPopped(EQ_popTask(d, eType), o, eId, eType)

\* removeTask, from self.__tasks.pop to the scan of the freezer
RemoveFromAll(d, taskId) ==
  [ES_removeTask(EQ_popTask([d EXCEPT !.tasks = Drop(@, taskId)], QueueNamed(taskId)),
                 taskId, NoExec)
     EXCEPT !.taskFreezer = IF taskId \in Range(@) THEN RemoveAt(@, IndexOf(@, taskId)) ELSE @]

\* removeTask, its end: "if eId: return self.__sendTaskToExecutor( eId, checkIdle = True )"
RemoveThenSend(d, o, eId) ==
  IF eId # NoExec
  THEN SendTaskToExecutor(d, o, eId, NoType, TRUE)
  ELSE Ret(d, S_OK(0))

\* removeTask (the API call, and the calls of __freezeTask and __dispatchTask)
RemoveTask(d, o, taskId) ==
  IF Raised(d) THEN d
  ELSE IF taskId \notin DOMAIN d.tasks THEN Ret(d, S_OK(0))
  ELSE RemoveThenSend(RemoveFromAll(d, taskId), o, ES_getExecutorOfTask(d, taskId))

\* self.__cbHolder.cbTaskError( taskId, ... ): the call is in no try block,
\* so an exception of the callback (o.err) goes up to the caller.  The other
\* callbacks are called inside a bare except that turns an exception into
\* S_ERROR (cbDispatch, cbSendTask, cbTaskProcessed) or drops it
\* (cbDisconectExecutor): their failing answers stand for their exceptions too.
TaskError(d, o, taskId) ==
  IF o.err
  THEN Raise(Logged(d, Event("taskError", taskId, NoExec, NoType, <<>>, FALSE)), CallbackError)
  ELSE Logged(d, Event("taskError", taskId, NoExec, NoType, <<>>, TRUE))

\* a __freezeTask that calls cbTaskError whatever failedOnTooFrozen says; C9
\* tells it from __freezeTask
TooFrozen_Reporting(d, o, report, taskId) ==
  IF Raised(d) THEN d
  ELSE Returning(TaskError(d, o, taskId), RBool(FALSE))

\* __freezeTask, "if not isFrozen": d is what removeTask left
TooFrozen(d, o, report, taskId) ==
  IF Raised(d) THEN d
  ELSE Returning(IF report THEN TaskError(d, o, taskId) ELSE d, RBool(FALSE))

\* a __freezeTask that still freezes at the tenth attempt; C10 tells it from
\* __freezeTask
FreezeCounted_Inclusive(d, o, taskId) ==
  IF d.tasks[taskId].frozenCount <= FreezeLimit
  THEN Ret([d EXCEPT !.taskFreezer = Append(@, taskId)], RBool(TRUE))
  ELSE TooFrozen(RemoveTask(d, o, taskId), o, d.failedOnTooFrozen, taskId)

\* __freezeTask once frozenCount is incremented
FreezeCounted(d, o, taskId) ==
  IF d.tasks[taskId].frozenCount < FreezeLimit
  THEN Ret([d EXCEPT !.taskFreezer = Append(@, taskId)], RBool(TRUE))
  ELSE TooFrozen(RemoveTask(d, o, taskId), o, d.failedOnTooFrozen, taskId)

\* __freezeTask; ret is the bool it returns
FreezeTask(d, o, taskId, eType) ==
  IF Raised(d) THEN d
  ELSE IF taskId \in Range(d.taskFreezer) THEN Ret(d, RBool(FALSE))
  ELSE IF taskId \notin DOMAIN d.tasks THEN Ret(d, RBool(FALSE))
  ELSE FreezeCounted([d EXCEPT !.tasks[taskId].frozenSince = d.now,
                               !.tasks[taskId].frozenCount = @ + 1,
                               !.tasks[taskId].eType = eType],
                     o, taskId)

\* __getNextExecutor: only IndexError is caught around self.__tasks[ taskId ]
GetNextExecutor(d, o, taskId) ==
  IF Raised(d) THEN d
  ELSE IF taskId \notin DOMAIN d.tasks THEN Raise(d, "KeyError")
  ELSE Ret(Logged(d, Event("nextStage", taskId, NoExec, o.next[taskId],
                           d.tasks[taskId].pathExecuted, o.next[taskId] # Fail)),
           IF o.next[taskId] = Fail THEN S_ERROR ELSE S_OK(0))

\* __dispatchTask, "if self.__freezeTask( ... ): return S_OK()  return result"
FrozenOnFail(d) ==
  IF Raised(d) THEN d
  ELSE IF d.ret.v = 1 THEN Ret(d, S_OK(0)) ELSE Ret(d, S_ERROR)

\* __dispatchTask, the cbTaskError call after removeTask
ErrorReported(d, o, taskId) ==
  IF Raised(d) THEN d
  ELSE Returning(TaskError(d, o, taskId), S_ERROR)

RECURSIVE DispatchTask(_, _, _, _)
RECURSIVE FillLoop(_, _, _)

\* __unfreezeTasks from position iP (1-based) on; eType = NoType is False
RECURSIVE UnfreezeLoop(_, _, _, _)
UnfreezeLoop(d, o, eType, iP) ==
  IF Raised(d) THEN d
  ELSE IF iP > Len(d.taskFreezer) THEN Ret(d, RNone)
  ELSE IF d.taskFreezer[iP] \notin DOMAIN d.tasks
  THEN Raise(d, "AttributeError")        \* self.self.__taskFreezer
  ELSE IF \/ eType # NoType /\ eType = d.tasks[d.taskFreezer[iP]].eType
          \/ d.now - d.tasks[d.taskFreezer[iP]].frozenSince > FreezeAge
  THEN UnfreezeLoop(DispatchTask([d EXCEPT !.taskFreezer = RemoveAt(@, iP)],
                                 o, d.taskFreezer[iP], FALSE),
                    o, eType, iP)
  ELSE UnfreezeLoop(d, o, eType, iP + 1)

UnfreezeTasks(d, o, eType) == UnfreezeLoop(d, o, eType, 1)

\* the body of the while loop of __fillExecutors after __sendTaskToExecutor;
\* the error branch calls self.log, an attribute the class does not have
FillSent(d, o, eType) ==
  IF ~IsOK(d.ret) THEN Raise(d, "AttributeError")
  ELSE IF d.ret.v = NoTask THEN Ret(d, RNone)
  ELSE FillLoop(d, o, eType)

\* "while eId:" with eId = getIdleExecutor( eType )
FillWith(d, o, eType, eId) ==
  IF eId = NoExec THEN Ret(d, RNone)
  ELSE FillSent(SendTaskToExecutor(d, o, eId, eType, FALSE), o, eType)

FillLoop(d, o, eType) ==
  IF Raised(d) THEN d
  ELSE FillWith(d, o, eType, ES_getIdleExecutor(d, eType, o.eOrder))

\* __fillExecutors
FillExecutors(d, o, eType, defrozeIfNeeded) ==
  IF Raised(d) THEN d
  ELSE IF defrozeIfNeeded
  THEN FillLoop(UnfreezeTasks(d, o, eType), o, eType)
  ELSE FillLoop(d, o, eType)

\* __dispatchTask after __getNextExecutor, which answered eType
Dispatched(d, o, taskId, eType, defrozeIfNeeded) ==
  IF Raised(d) THEN d
  ELSE IF ~IsOK(d.ret)
  THEN IF d.freezeOnFailedDispatch
       THEN FrozenOnFail(FreezeTask(d, o, taskId, NoType))
       ELSE ErrorReported(RemoveTask(d, o, taskId), o, taskId)
  ELSE IF eType = Done THEN RemoveTask(d, o, taskId)
  ELSE IF eType \notin DOMAIN d.execTypes
  THEN IF d.freezeOnUnknownExecutor
       THEN FreezeTask(d, o, taskId, eType)
       ELSE RemoveTask(d, o, taskId)
  ELSE Returning(FillExecutors(EQ_pushTask(d, eType, taskId, FALSE), o, eType,
                               defrozeIfNeeded),
                 S_OK(0))

\* __dispatchTask
DispatchTask(d, o, taskId, defrozeIfNeeded) ==
  Dispatched(GetNextExecutor(d, o, taskId), o, taskId, o.next[taskId], defrozeIfNeeded)

\* __addTaskIfNew
AddTaskIfNew(d, taskId, taskObj) ==
  IF taskId \in DOMAIN d.tasks THEN Ret(d, RBool(FALSE))
  ELSE Ret([d EXCEPT !.tasks = Put(@, taskId, ETask(taskObj))], RBool(TRUE))

\* -------------------------------------------------------------- the API
\* addTask after __addTaskIfNew
AddedOrKnown(d, o, taskId) ==
  IF d.ret.v = 0
  THEN Returning(UnfreezeTasks(d, o, NoType), S_OK(0))
  ELSE DispatchTask(d, o, taskId, TRUE)

D_addTask(d, o, taskId, taskObj) == AddedOrKnown(AddTaskIfNew(d, taskId, taskObj), o, taskId)

D_removeTask(d, o, taskId) == RemoveTask(d, o, taskId)

D_addExecutor(d, o, eType, eId, mt) ==
  IF eId \in DOMAIN d.idMap THEN Ret(d, RNone)
  ELSE Returning(
         FillExecutors(
           ES_addExecutor([d EXCEPT !.idMap = Put(@, eId, eType),
                                    !.execTypes = Put(@, eType,
                                        (IF eType \in DOMAIN @ THEN @[eType] ELSE 0) + 1)],
                          eId, eType, mt),
           o, eType, TRUE),
         RNone)

\* for taskId in tasksInExec: self.__queues.pushTask( eType, taskId, ahead = True )
RECURSIVE PushAhead(_, _, _)
PushAhead(d, eType, held) ==
  IF held = <<>> THEN d
  ELSE PushAhead(EQ_pushTask(d, eType, Head(held), TRUE), eType, Tail(held))

\* removeExecutor after self.__states.removeExecutor, which returned d.ret.v
ExecutorRemoved(d, o, eId, eType) ==
  IF Raised(d) THEN d
  ELSE Returning(
         FillExecutors(
           Logged(PushAhead(d, eType, d.ret.v),
                  Event("disconnectExecutor", NoTask, eId, NoType, <<>>, TRUE)),
           o, eType, TRUE),
         RNone)

D_removeExecutor(d, o, eId) ==
  IF eId \notin DOMAIN d.idMap THEN Ret(d, RNone)
  ELSE ExecutorRemoved(
         ES_removeExecutor([d EXCEPT !.idMap = Drop(@, eId),
                                     !.execTypes[d.idMap[eId]] = @ - 1],
                           eId, o.tOrder),
         o, eId, d.idMap[eId])

\* taskProcessed without its last call: the executor that reported is not
\* given the next task of its queue
ProcessedNext_NoSend(d, o, eId, eType) == d

\* taskProcessed, its last two calls: d is what __dispatchTask left
ProcessedNext(d, o, eId, eType) ==
  Returning(SendTaskToExecutor(d, o, eId, eType, FALSE), d.ret)

\* taskProcessed from the done callback on; o.proc is what cbTaskProcessed
\* answers; taskObj = NoObj is taskObj = False
ProcessedOfType(d, o, eId, eType, taskId, taskObj) ==
  IF ~o.proc
  THEN Ret(Logged(d, Event("taskProcessed", taskId, NoExec, eType, <<>>, FALSE)), S_ERROR)
  ELSE ProcessedNext(
         DispatchTask(
           [Logged(d, Event("taskProcessed", taskId, NoExec, eType, <<>>, TRUE))
              EXCEPT !.tasks[taskId].taskObj = IF taskObj # NoObj THEN taskObj ELSE @,
                     !.tasks[taskId].pathExecuted = Append(@, eType)],
           o, taskId, TRUE),
         o, eId, eType)

\* taskProcessed after self.__states.removeTask( taskId, eId )
ProcessedBy(d, o, eId, taskId, taskObj) ==
  IF d.ret.v = 0 THEN Ret(d, S_ERROR)
  ELSE IF eId \notin DOMAIN d.idMap
  THEN Returning(DispatchTask(d, o, taskId, TRUE), S_ERROR)
  ELSE ProcessedOfType(d, o, eId, d.idMap[eId], taskId, taskObj)

D_taskProcessed(d, o, eId, taskId, taskObj) ==
  IF taskId \notin DOMAIN d.tasks THEN Ret(d, S_ERROR)
  ELSE ProcessedBy(ES_removeTask(d, taskId, eId), o, eId, taskId, taskObj)

\* retryTask after self.__states.removeTask( taskId, eId )
RetriedBy(d, o, taskId) ==
  IF d.ret.v = 0 THEN Ret(d, S_ERROR)
  ELSE DispatchTask([d EXCEPT !.tasks[taskId].retries = @ + 1], o, taskId, TRUE)

D_retryTask(d, o, eId, taskId) ==
  IF taskId \notin DOMAIN d.tasks THEN Ret(d, S_ERROR)
  ELSE RetriedBy(ES_removeTask(d, taskId, eId), o, taskId)

\* ================================================== the sequential system
\* the objects as the running call finds them
Cur ==
  [idMap |-> idMap, execTypes |-> execTypes, tasks |-> tasks,
   taskFreezer |-> taskFreezer, failedOnTooFrozen |-> failedOnTooFrozen,
   freezeOnFailedDispatch |-> freezeOnFailedDispatch,
   freezeOnUnknownExecutor |-> freezeOnUnknownExecutor,
   typeToId |-> typeToId, maxTasks |-> maxTasks, execTasks |-> execTasks,
   taskInExec |-> taskInExec, queues |-> queues, taskInQueue |-> taskInQueue,
   now |-> now, log |-> <<>>, exc |-> NoExc, ret |-> RNone]

\* the objects become as in r
Store(r) ==
  /\ idMap' = r.idMap
  /\ execTypes' = r.execTypes
  /\ tasks' = r.tasks
  /\ taskFreezer' = r.taskFreezer
  /\ typeToId' = r.typeToId
  /\ maxTasks' = r.maxTasks
  /\ execTasks' = r.execTasks
  /\ taskInExec' = r.taskInExec
  /\ queues' = r.queues
  /\ taskInQueue' = r.taskInQueue

\* the call returns (or raises) and leaves the objects as in r
Commit(r) ==
  /\ Store(r)
  /\ raisedBefore' = (raisedBefore \/ Raised(r))
  /\ UNCHANGED <<failedOnTooFrozen, freezeOnFailedDispatch, freezeOnUnknownExecutor,
                 now, pushStamp, pushCount, aheadUsed, tripLog, reported, thr>>

\* The answers of the callbacks during one call: o.next[t] of cbDispatch for
\* task t, o.send[e] of cbSendTask for executor e, o.proc of cbTaskProcessed,
\* o.err whether cbTaskError raises, and the orders in which the call
\* iterates over sets of eIds and taskIds.  Only the tasks the call can
\* dispatch and the executors it can send to have answers that matter; the
\* others are fixed.  cbTaskError is within reach of a dispatch when failed
\* dispatches are not frozen or a task was frozen FreezeLimit - 1 times.
CanReport ==
  \/ ~freezeOnFailedDispatch
  \/ \E t \in DOMAIN tasks : tasks[t].frozenCount >= FreezeLimit - 1
IdOrder(n) == [i \in 1..n |-> i]
Oracles(dispatched, sentTo, procAnswers, held) ==
  [next : {f \in [Tasks -> Results] : \A t \in Tasks \ dispatched : f[t] = Done},
   send : {g \in [Executors -> BOOLEAN] : \A e \in Executors \ sentTo : g[e]},
   proc : procAnswers,
   err : IF dispatched # {} /\ CanReport THEN BOOLEAN ELSE {FALSE},
   eOrder : IF Cardinality(sentTo) >= 2 THEN Perms(Executors) ELSE {IdOrder(NumExecs)},
   tOrder : IF Cardinality(held) >= 2 THEN Perms(held) ELSE {IdOrder(NumTasks)}]
NoOracle == Oracles({}, {}, {TRUE}, {})

\* a thread that runs no call; otherwise at is the step it is about to take,
\* eType, eId, taskId the locals of __fillExecutors / __sendTaskToExecutor,
\* loop tells whether the send is one of the while loop of __fillExecutors
\* and rm is the argument of the removeTask the thread runs, if it runs one;
\* iP is the local of __unfreezeTasks, the index of the entry it looks at next;
\* holds are the mutexes the thread holds, in the order in which it acquired
\* them, and todo the acquire and release calls its call has still to make
Idle == [at |-> "idle", eType |-> NoType, eId |-> NoExec, taskId |-> NoTask, loop |-> FALSE,
         rm |-> NoTask, iP |-> 0, holds |-> <<>>, todo |-> <<>>]

Frozen == Range(taskFreezer)
Connected == DOMAIN idMap
Aged(taskId) == now - tasks[taskId].frozenSince > FreezeAge
\* the frozen tasks a sweep can dispatch: with a type hint, or for their age
Defrostable == {t \in Frozen \cap DOMAIN tasks : tasks[t].eType # NoType \/ Aged(t)}
DefrostableByAge == {t \in Frozen \cap DOMAIN tasks : Aged(t)}
Holds(eId, taskId) == eId \in DOMAIN execTasks /\ taskId \in execTasks[eId]
HeldBy(eId) == IF eId \in DOMAIN execTasks THEN execTasks[eId] ELSE {}

Init ==
  /\ idMap = Emp /\ execTypes = Emp /\ tasks = Emp /\ taskFreezer = <<>>
  /\ failedOnTooFrozen = TRUE
  /\ freezeOnFailedDispatch = TRUE
  /\ freezeOnUnknownExecutor = TRUE
  /\ typeToId = Emp /\ maxTasks = Emp /\ execTasks = Emp /\ taskInExec = Emp
  /\ queues = Emp /\ taskInQueue = Emp
  /\ now = 0
  /\ steps = 0
  /\ pushStamp = Emp /\ pushCount = 0 /\ aheadUsed = {} /\ raisedBefore = FALSE
  /\ tripLog = Emp
  /\ reported = NoReport
  /\ thr = [th \in Threads |-> Idle]

\* the answers that matter to each call
AddTaskOracles(taskId) ==
  IF taskId \in DOMAIN tasks
  THEN Oracles(DefrostableByAge, Connected, {TRUE}, {})
  ELSE Oracles({taskId} \cup Defrostable, Connected, {TRUE}, {})
RemoveTaskOracles(taskId) ==
  Oracles({}, {ES_getExecutorOfTask(Cur, taskId)} \cap Connected, {TRUE}, {})
AddExecutorOracles(eId) ==
  IF eId \in Connected THEN NoOracle
  ELSE Oracles(Defrostable, Connected \cup {eId}, {TRUE}, {})
RemoveExecutorOracles(eId) ==
  IF eId \notin Connected THEN NoOracle
  ELSE Oracles(Defrostable, Connected, {TRUE},
               IF eId \in DOMAIN execTasks THEN execTasks[eId] ELSE {})
ReportOracles(eId, taskId, procAnswers) ==
  IF taskId \in DOMAIN tasks /\ Holds(eId, taskId)
  THEN Oracles({taskId} \cup Defrostable, Connected, procAnswers, {})
  ELSE NoOracle

AddTask(taskId, taskObj) ==
  \E o \in AddTaskOracles(taskId) : Commit(D_addTask(Cur, o, taskId, taskObj))

RemoveTaskCall(taskId) ==
  \E o \in RemoveTaskOracles(taskId) : Commit(D_removeTask(Cur, o, taskId))

AddExecutor(eType, eId, mt) ==
  \E o \in AddExecutorOracles(eId) : Commit(D_addExecutor(Cur, o, eType, eId, mt))

RemoveExecutor(eId) ==
  \E o \in RemoveExecutorOracles(eId) : Commit(D_removeExecutor(Cur, o, eId))

TaskProcessed(eId, taskId, taskObj) ==
  \E o \in ReportOracles(eId, taskId, BOOLEAN) :
    Commit(D_taskProcessed(Cur, o, eId, taskId, taskObj))

RetryTask(eId, taskId) ==
  \E o \in ReportOracles(eId, taskId, {TRUE}) : Commit(D_retryTask(Cur, o, eId, taskId))

\* time passes between two calls; the clock is advanced only while a frozen
\* task is waiting for its age
Tick ==
  /\ \E t \in Frozen \cap DOMAIN tasks : ~Aged(t)
  /\ now' = now + TickLen
  /\ UNCHANGED <<objVars, histVars>>

SetFailedOnTooFrozen(value) ==
  /\ failedOnTooFrozen' = value
  /\ UNCHANGED <<idMap, execTypes, tasks, taskFreezer, freezeOnFailedDispatch,
                 freezeOnUnknownExecutor, typeToId, maxTasks, execTasks, taskInExec,
                 queues, taskInQueue, now, histVars>>

SetFreezeOnFailedDispatch(value) ==
  /\ freezeOnFailedDispatch' = value
  /\ UNCHANGED <<idMap, execTypes, tasks, taskFreezer, failedOnTooFrozen,
                 freezeOnUnknownExecutor, typeToId, maxTasks, execTasks, taskInExec,
                 queues, taskInQueue, now, histVars>>

SetFreezeOnUnknownExecutor(value) ==
  /\ freezeOnUnknownExecutor' = value
  /\ UNCHANGED <<idMap, execTypes, tasks, taskFreezer, failedOnTooFrozen,
                 freezeOnFailedDispatch, typeToId, maxTasks, execTasks, taskInExec,
                 queues, taskInQueue, now, histVars>>

\* one more step of a run of at most k steps
Within(k) == steps < k /\ steps' = steps + 1

\* Spec: every run of at most MaxSteps calls of the API
Next ==
  \/ \E taskId \in Tasks, taskObj \in Objs :
       Within(MaxSteps) /\ AddTask(taskId, taskObj)
  \/ \E taskId \in Tasks : Within(MaxSteps) /\ RemoveTaskCall(taskId)
  \/ \E eType \in Types, eId \in Executors, mt \in 0..MaxCap :
       Within(MaxSteps) /\ AddExecutor(eType, eId, mt)
  \/ \E eId \in Executors : Within(MaxSteps) /\ RemoveExecutor(eId)
  \/ \E eId \in Executors, taskId \in Tasks, taskObj \in Objs \cup {NoObj} :
       Within(MaxSteps) /\ TaskProcessed(eId, taskId, taskObj)
  \/ \E eId \in Executors, taskId \in Tasks :
       Within(MaxSteps) /\ RetryTask(eId, taskId)
  \/ Within(MaxSteps) /\ Tick
  \/ \E value \in BOOLEAN : Within(MaxSteps) /\ SetFailedOnTooFrozen(value)
  \/ \E value \in BOOLEAN : Within(MaxSteps) /\ SetFreezeOnFailedDispatch(value)
  \/ \E value \in BOOLEAN : Within(MaxSteps) /\ SetFreezeOnUnknownExecutor(value)

Spec == Init /\ [][Next]_vars

\* SpecFreeze: the freezer at work on the tasks 1..FrzTasks while no executor
\* connects; the length of a run is not bounded, the clock is
NextFreeze ==
  \/ \E taskId \in 1..FrzTasks, taskObj \in Objs : UNCHANGED steps /\ AddTask(taskId, taskObj)
  \/ \E taskId \in 1..FrzTasks : UNCHANGED steps /\ RemoveTaskCall(taskId)
  \/ now < FrzTicks * TickLen /\ UNCHANGED steps /\ Tick
  \/ \E value \in BOOLEAN : UNCHANGED steps /\ SetFailedOnTooFrozen(value)

SpecFreeze == Init /\ [][NextFreeze]_vars

\* SpecQueues: an ExecutorQueues object on its own, any sequence of its calls.
\* pushStamp numbers the pushes that queue a task; aheadUsed holds the types
\* that had an ahead = True push.
QTasks == 1..NumTasks + 1

Q_pushTask(eType, taskId, ahead) ==
  LET r == EQ_pushTask(Cur, eType, taskId, ahead)
  IN  /\ pushCount < MaxPushes
      /\ queues' = r.queues
      /\ taskInQueue' = r.taskInQueue
      /\ IF taskId \in DOMAIN taskInQueue
         THEN UNCHANGED <<pushStamp, pushCount, aheadUsed>>
         ELSE /\ pushCount' = pushCount + 1
              /\ pushStamp' = Put(pushStamp, taskId, pushCount + 1)
              /\ aheadUsed' = IF ahead THEN aheadUsed \cup {eType} ELSE aheadUsed
      /\ UNCHANGED <<idMap, execTypes, tasks, taskFreezer, failedOnTooFrozen,
                     freezeOnFailedDispatch, freezeOnUnknownExecutor, typeToId,
                     maxTasks, execTasks, taskInExec, now, steps, raisedBefore, tripLog, reported, thr>>

Q_popTask(eType) ==
  LET r == EQ_popTask(Cur, eType)
  IN  /\ queues' = r.queues
      /\ taskInQueue' = r.taskInQueue
      /\ pushStamp' = Drop(pushStamp, r.ret.v)
      /\ UNCHANGED <<idMap, execTypes, tasks, taskFreezer, failedOnTooFrozen,
                     freezeOnFailedDispatch, freezeOnUnknownExecutor, typeToId,
                     maxTasks, execTasks, taskInExec, now, steps, pushCount, aheadUsed,
                     raisedBefore, tripLog, reported, thr>>

Q_deleteTask(taskId) ==
  LET r == EQ_deleteTask(Cur, taskId)
  IN  /\ queues' = r.queues
      /\ taskInQueue' = r.taskInQueue
      /\ pushStamp' = Drop(pushStamp, taskId)
      /\ UNCHANGED <<idMap, execTypes, tasks, taskFreezer, failedOnTooFrozen,
                     freezeOnFailedDispatch, freezeOnUnknownExecutor, typeToId,
                     maxTasks, execTasks, taskInExec, now, steps, pushCount, aheadUsed,
                     raisedBefore, tripLog, reported, thr>>

NextQueues ==
  \/ \E eType \in Types, taskId \in QTasks, ahead \in BOOLEAN : Q_pushTask(eType, taskId, ahead)
  \/ \E eType \in Types : Q_popTask(eType)
  \/ \E taskId \in QTasks : Q_deleteTask(taskId)

SpecQueues == Init /\ [][NextQueues]_vars

\* SpecStates: an ExecutorState object on its own, any sequence of its calls,
\* for registered and unregistered eIds and for assigned and unassigned tasks.
S_addExecutor(eId, eType, mt) ==
  Commit(ES_addExecutor(Cur, eId, eType, mt)) /\ UNCHANGED steps

S_removeExecutor(eId) ==
  \E tOrder \in Perms(Tasks) : Commit(ES_removeExecutor(Cur, eId, tOrder)) /\ UNCHANGED steps

S_addTask(eId, taskId) ==
  Commit(ES_addTask(Cur, eId, taskId)) /\ UNCHANGED steps

S_removeTask(taskId, eId) ==
  Commit(ES_removeTask(Cur, taskId, eId)) /\ UNCHANGED steps

NextStates ==
  \/ \E eId \in Executors, eType \in Types, mt \in 0..MaxCap : S_addExecutor(eId, eType, mt)
  \/ \E eId \in Executors : S_removeExecutor(eId)
  \/ \E eId \in Executors, taskId \in Tasks : S_addTask(eId, taskId)
  \/ \E taskId \in Tasks, eId \in Executors \cup {NoExec} : S_removeTask(taskId, eId)

SpecStates == Init /\ [][NextStates]_vars

\* SpecReuse: tasks that are removed and added again while executors of
\* capacity 1 connect and disconnect; cbDispatch answers an executor type,
\* cbSendTask accepts every task.  Only calls that have an effect.
Typed(S, dispatched) ==
  {o \in S : /\ \A t \in dispatched : o.next[t] \in Types
             /\ \A e \in Executors : o.send[e]}

ReuseAddTask(taskId) ==
  \E o \in Typed(AddTaskOracles(taskId), {taskId} \cup Defrostable) :
    Commit(D_addTask(Cur, o, taskId, 1))

ReuseRemoveTask(taskId) ==
  \E o \in Typed(RemoveTaskOracles(taskId), {}) : Commit(D_removeTask(Cur, o, taskId))

ReuseAddExecutor(eType, eId) ==
  \E o \in Typed(AddExecutorOracles(eId), Defrostable) :
    Commit(D_addExecutor(Cur, o, eType, eId, 1))

ReuseRemoveExecutor(eId) ==
  \E o \in Typed(RemoveExecutorOracles(eId), Defrostable) :
    Commit(D_removeExecutor(Cur, o, eId))

NextReuse ==
  \/ \E taskId \in Tasks \ DOMAIN tasks : Within(ReuseSteps) /\ ReuseAddTask(taskId)
  \/ \E taskId \in DOMAIN tasks : Within(ReuseSteps) /\ ReuseRemoveTask(taskId)
  \/ \E eType \in Types, eId \in Executors \ Connected :
       Within(ReuseSteps) /\ ReuseAddExecutor(eType, eId)
  \/ \E eId \in Connected : Within(ReuseSteps) /\ ReuseRemoveExecutor(eId)

SpecReuse == Init /\ [][NextReuse]_vars

\* SpecConc: NumThreads threads call the dispatcher at the same time.  A
\* step is what a thread does while it holds a lock, or one callback; the
\* steps of the threads interleave.  Executors have type "A" and capacity
\* 1, cbDispatch answers "A" for a new task once the type is known and "no
\* more executors" for a processed one, so the freezer stays empty and the
\* sweeps of __fillExecutors find nothing.  steps counts the calls started.
ConcStep(th, r, next, raised) ==
  /\ Store(r)
  /\ thr' = [thr EXCEPT ![th] = next]
  /\ raisedBefore' = (raisedBefore \/ raised)
  /\ UNCHANGED <<failedOnTooFrozen, freezeOnFailedDispatch, freezeOnUnknownExecutor,
                 now, pushStamp, pushCount, aheadUsed, tripLog, reported>>

Filling(eType) == [Idle EXCEPT !.at = "fill", !.eType = eType, !.loop = TRUE]

\* addExecutor up to the release of the executors lock
T_addExecutor(th, eId) ==
  /\ thr[th].at = "idle"
  /\ eId \notin DOMAIN idMap
  /\ ConcStep(th,
              ES_addExecutor([Cur EXCEPT !.idMap = Put(@, eId, "A"),
                                         !.execTypes = Put(@, "A",
                                            (IF "A" \in DOMAIN @ THEN @["A"] ELSE 0) + 1)],
                             eId, "A", 1),
              Filling("A"), FALSE)

\* removeExecutor up to the release of the executors lock
T_removeExecutor(th, eId) ==
  /\ thr[th].at = "idle"
  /\ eId \in DOMAIN idMap
  /\ \E tOrder \in Oracles({}, {}, {TRUE}, HeldBy(eId)) :
       LET r == ES_removeExecutor([Cur EXCEPT !.idMap = Drop(@, eId),
                                              !.execTypes[idMap[eId]] = @ - 1],
                                  eId, tOrder.tOrder)
       IN  IF Raised(r)
           THEN ConcStep(th, r, Idle, TRUE)
           ELSE ConcStep(th, PushAhead(r, idMap[eId], r.ret.v), Filling(idMap[eId]), FALSE)

\* addTask of a new task: __addTaskIfNew, cbDispatch, pushTask
T_addTask(th, taskId) ==
  /\ thr[th].at = "idle"
  /\ taskId \notin DOMAIN tasks
  /\ "A" \in DOMAIN execTypes
  /\ ConcStep(th, EQ_pushTask(AddTaskIfNew(Cur, taskId, 1), "A", taskId, FALSE),
              Filling("A"), FALSE)

\* taskProcessed up to its last call: states.removeTask, cbTaskProcessed,
\* cbDispatch answering "no more executors", removeTask
T_taskProcessed(th, eId, taskId) ==
  /\ thr[th].at = "idle"
  /\ taskId \in DOMAIN tasks
  /\ eId \in DOMAIN idMap
  /\ Holds(eId, taskId)
  /\ ConcStep(th, RemoveFromAll(ES_removeTask(Cur, taskId, eId), taskId),
              [Idle EXCEPT !.at = "send", !.eType = idMap[eId], !.eId = eId], FALSE)

\* the call of the thread returns; a thread that ran removeTask( rm ) stays
\* where the call returned, with the executor it found in eId
Returned(th) ==
  IF thr[th].rm = NoTask THEN Idle
  ELSE [Idle EXCEPT !.at = "removed", !.rm = thr[th].rm, !.eId = thr[th].eId]

\* __fillExecutors: eId = self.__states.getIdleExecutor( eType )
T_getIdle(th) ==
  /\ thr[th].at = "fill"
  /\ \E eOrder \in Perms(Executors) :
       LET eId == ES_getIdleExecutor(Cur, thr[th].eType, eOrder)
       IN  ConcStep(th, Cur,
                    IF eId = NoExec THEN Idle ELSE [thr[th] EXCEPT !.at = "send", !.eId = eId],
                    FALSE)

\* __sendTaskToExecutor: taskId = self.__queues.popTask( eType )
T_pop(th) ==
  /\ thr[th].at = "send"
  /\ LET r == EQ_popTask(Cur, thr[th].eType)
     IN  ConcStep(th, r,
                  IF r.ret.v = NoTask THEN Returned(th)
                  ELSE [thr[th] EXCEPT !.at = "popped", !.taskId = r.ret.v],
                  FALSE)

\* __sendTaskToExecutor: self.__states.addTask( eId, taskId )
T_assign(th) ==
  /\ thr[th].at = "popped"
  /\ ConcStep(th, ES_addTask(Cur, thr[th].eId, thr[th].taskId),
              [thr[th] EXCEPT !.at = "assigned"], FALSE)

\* __sendTaskToExecutor: result = self.__msgTaskToExecutor( eId, taskId )
T_msg(th, ok) ==
  /\ thr[th].at = "assigned"
  /\ LET r == MsgTaskToExecutor(Cur, [send |-> [e \in Executors |-> ok]],
                                thr[th].eId, thr[th].taskId)
     IN  ConcStep(th, Cur,
                  IF ~IsOK(r.ret) THEN [thr[th] EXCEPT !.at = "refused"]
                  ELSE IF thr[th].loop THEN Filling(thr[th].eType)
                  ELSE Returned(th),
                  FALSE)

\* __sendTaskToExecutor: self.__queues.pushTask( eType, taskId, ahead = True )
T_pushBack(th) ==
  /\ thr[th].at = "refused"
  /\ ConcStep(th, EQ_pushTask(Cur, thr[th].eType, thr[th].taskId, TRUE),
              [thr[th] EXCEPT !.at = "pushed"], FALSE)

\* __sendTaskToExecutor: self.__states.removeTask( taskId ), return result;
\* in the loop of __fillExecutors the failure raises
T_unassign(th) ==
  /\ thr[th].at = "pushed"
  /\ ConcStep(th, ES_removeTask(Cur, thr[th].taskId, NoExec), Returned(th), thr[th].loop)

NextConc ==
  \/ \E th \in Threads, eId \in Executors : Within(ConcCalls) /\ T_addExecutor(th, eId)
  \/ \E th \in Threads, eId \in Executors : Within(ConcCalls) /\ T_removeExecutor(th, eId)
  \/ \E th \in Threads, taskId \in Tasks : Within(ConcCalls) /\ T_addTask(th, taskId)
  \/ \E th \in Threads, eId \in Executors, taskId \in Tasks :
       Within(ConcCalls) /\ T_taskProcessed(th, eId, taskId)
  \/ \E th \in Threads : UNCHANGED steps /\ T_getIdle(th)
  \/ \E th \in Threads : UNCHANGED steps /\ T_pop(th)
  \/ \E th \in Threads : UNCHANGED steps /\ T_assign(th)
  \/ \E th \in Threads, ok \in BOOLEAN : UNCHANGED steps /\ T_msg(th, ok)
  \/ \E th \in Threads : UNCHANGED steps /\ T_pushBack(th)
  \/ \E th \in Threads : UNCHANGED steps /\ T_unassign(th)

SpecConc == Init /\ [][NextConc]_vars

\* SpecRace: SpecConc and threads that run removeTask, one step for each
\* statement of removeTask that reads or writes the task table, the states,
\* the queues or the freezer (none of them is under a lock of the
\* dispatcher but the freezer scan; ExecutorState and ExecutorQueues lock
\* each of their methods).
\* removeTask: self.__tasks.pop( taskId ), for a task of the table
T_rmTable(th, taskId) ==
  /\ thr[th].at = "idle"
  /\ taskId \in DOMAIN tasks
  /\ ConcStep(th, [Cur EXCEPT !.tasks = Drop(@, taskId)],
              [Idle EXCEPT !.at = "rmFind", !.rm = taskId], FALSE)

\* removeTask: eId = self.__states.getExecutorOfTask( taskId )
T_rmFind(th) ==
  /\ thr[th].at = "rmFind"
  /\ ConcStep(th, Cur,
              [thr[th] EXCEPT !.at = "rmQueue", !.eId = ES_getExecutorOfTask(Cur, thr[th].rm)],
              FALSE)

\* removeTask: self.__queues.popTask( taskId )
T_rmQueue(th) ==
  /\ thr[th].at = "rmQueue"
  /\ ConcStep(th, EQ_popTask(Cur, QueueNamed(thr[th].rm)),
              [thr[th] EXCEPT !.at = "rmState"], FALSE)

\* removeTask: self.__states.removeTask( taskId )
T_rmState(th) ==
  /\ thr[th].at = "rmState"
  /\ ConcStep(th, ES_removeTask(Cur, thr[th].rm, NoExec),
              [thr[th] EXCEPT !.at = "rmFreezer"], FALSE)

\* removeTask: the scan of the freezer under the freezer lock
T_rmFreezer(th) ==
  /\ thr[th].at = "rmFreezer"
  /\ ConcStep(th,
              [Cur EXCEPT !.taskFreezer = IF thr[th].rm \in Range(@)
                                           THEN RemoveAt(@, IndexOf(@, thr[th].rm)) ELSE @],
              [thr[th] EXCEPT !.at = "rmSend"], FALSE)

\* removeTask: "if eId: return self.__sendTaskToExecutor( eId, checkIdle = True )",
\* up to the popTask of __sendTaskToExecutor
T_rmSend(th) ==
  /\ thr[th].at = "rmSend"
  /\ ConcStep(th, Cur,
              IF thr[th].eId = NoExec \/ ES_freeSlots(Cur, thr[th].eId) = 0
                   \/ thr[th].eId \notin DOMAIN idMap
              THEN Returned(th)
              ELSE [thr[th] EXCEPT !.at = "send", !.eType = idMap[thr[th].eId]],
              FALSE)

NextRace ==
  \/ NextConc
  \/ \E th \in Threads, taskId \in Tasks : Within(ConcCalls) /\ T_rmTable(th, taskId)
  \/ \E th \in Threads : UNCHANGED steps /\ T_rmFind(th)
  \/ \E th \in Threads : UNCHANGED steps /\ T_rmQueue(th)
  \/ \E th \in Threads : UNCHANGED steps /\ T_rmState(th)
  \/ \E th \in Threads : UNCHANGED steps /\ T_rmFreezer(th)
  \/ \E th \in Threads : UNCHANGED steps /\ T_rmSend(th)

SpecRace == Init /\ [][NextRace]_vars

\* SpecSweep: sweeps of the freezer that run while other threads run
\* removeTask.  No executor connects, so every task that is added goes to
\* the freezer or leaves; the tasks are added one call at a time, and the
\* clock goes on while they are frozen.  A sweep is the one addTask runs for
\* a task of the table; one step of it is one pass through the region
\* __unfreezeTasks locks with the freezer lock, or the dispatch of the task
\* it took out of the freezer.
SweepAddTask(taskId) ==
  /\ taskId \notin DOMAIN tasks
  /\ \A th \in Threads : thr[th].at = "idle"
  /\ AddTask(taskId, 1)

\* addTask for a task of the table: __addTaskIfNew answers False, iP = 0
T_sweep(th, taskId) ==
  /\ thr[th].at = "idle"
  /\ taskId \in DOMAIN tasks
  /\ ConcStep(th, Cur, [Idle EXCEPT !.at = "sweep"], FALSE)

\* __unfreezeTasks: the "while" test and the region under the freezer lock,
\* for a thread whose locals are t.  ret is None when the loop ends, the
\* taskId to dispatch when the entry was taken out, NoTask when it was left
SweepEntry(d, t, eType) ==
  IF t.iP >= Len(d.taskFreezer) THEN Ret(d, RNone)
  ELSE LET taskId == d.taskFreezer[t.iP + 1]
       IN  IF taskId \notin DOMAIN d.tasks
           THEN Raise(d, "AttributeError")        \* self.self.__taskFreezer
           ELSE IF \/ eType # NoType /\ eType = d.tasks[taskId].eType
                   \/ d.now - d.tasks[taskId].frozenSince > FreezeAge
           THEN Ret([d EXCEPT !.taskFreezer = RemoveAt(@, t.iP + 1)], RInt(taskId))
           ELSE Ret(d, RInt(NoTask))

T_sweepEntry(th) ==
  /\ thr[th].at = "sweep"
  /\ LET r == SweepEntry(Cur, thr[th], thr[th].eType)
     IN  ConcStep(th, r,
                  IF Raised(r) \/ r.ret = RNone THEN Idle
                  ELSE IF r.ret.v = NoTask THEN [thr[th] EXCEPT !.iP = @ + 1]
                  ELSE [thr[th] EXCEPT !.at = "defrost", !.taskId = r.ret.v],
                  Raised(r))

\* __unfreezeTasks: self.__dispatchTask( taskId, defrozeIfNeeded = False )
T_sweepDispatch(th) ==
  /\ thr[th].at = "defrost"
  /\ \E o \in Oracles({thr[th].taskId}, {}, {TRUE}, {}) :
       LET r == DispatchTask(Cur, o, thr[th].taskId, FALSE)
       IN  ConcStep(th, r,
                    IF Raised(r) THEN Idle
                    ELSE [thr[th] EXCEPT !.at = "sweep", !.taskId = NoTask],
                    Raised(r))

NextSweep ==
  \/ \E taskId \in Tasks : Within(SweepCalls) /\ SweepAddTask(taskId)
  \/ now < SweepTicks * TickLen /\ UNCHANGED steps /\ Tick
  \/ \E th \in Threads, taskId \in Tasks : Within(SweepCalls) /\ T_sweep(th, taskId)
  \/ \E th \in Threads : UNCHANGED steps /\ T_sweepEntry(th)
  \/ \E th \in Threads : UNCHANGED steps /\ T_sweepDispatch(th)
  \/ \E th \in Threads, taskId \in Tasks : Within(SweepCalls) /\ T_rmTable(th, taskId)
  \/ \E th \in Threads : UNCHANGED steps /\ T_rmFind(th)
  \/ \E th \in Threads : UNCHANGED steps /\ T_rmQueue(th)
  \/ \E th \in Threads : UNCHANGED steps /\ T_rmState(th)
  \/ \E th \in Threads : UNCHANGED steps /\ T_rmFreezer(th)
  \/ \E th \in Threads : UNCHANGED steps /\ T_rmSend(th)

SpecSweep == Init /\ [][NextSweep]_vars

\* SpecLocks: the five mutexes.  The calls a thread has still to make are a
\* sequence of acquire and release calls and of calls of methods of the
\* dispatcher; a method is replaced by one of its bodies when the thread
\* comes to it.  Every acquire of the source is followed by "try: ...
\* finally: release", so an exception inside a locked region runs the
\* releases of the locks held and ends the call.  What the calls do to the
\* tables is left out: every branch can be taken.
ExecutorsLock == "executors"
TasksLock == "tasks"
FreezerLock == "freezer"
StatesLock == "states"
QueuesLock == "queues"

Acq(l) == <<"acquire", l>>
Rel(l) == <<"release", l>>
Do(method) == <<"call", method>>
\* the thread calls a callback of the callbacks object
Cb(callback) == <<"callback", callback>>
\* a region that takes one lock and calls nothing that takes a lock: the
\* methods of ExecutorState and ExecutorQueues, __addTaskIfNew, and the
\* regions of the freezer lock
Region(l) == <<Acq(l), Rel(l)>>

\* pushTask for each of k tasks
RECURSIVE Pushes(_)
Pushes(k) == IF k = 0 THEN <<>> ELSE Region(QueuesLock) \o Pushes(k - 1)

\* a removeExecutor that takes the lock of ExecutorState before the
\* executors lock
Sec_removeExecutor_StatesFirst(k) ==
  <<Acq(StatesLock)>> \o Region(ExecutorsLock) \o <<Rel(StatesLock)>> \o Pushes(k)

\* a removeExecutor that calls cbDisconectExecutor before it releases the
\* executors lock
Sec_removeExecutor_Disconnecting(k) ==
  <<Acq(ExecutorsLock)>> \o Region(StatesLock) \o Pushes(k)
    \o <<Cb("disconnectExecutor"), Rel(ExecutorsLock)>>

\* the body of removeExecutor under the executors lock:
\* states.removeExecutor, then pushTask for each of the k tasks it held
Sec_removeExecutor(k) ==
  <<Acq(ExecutorsLock)>> \o Region(StatesLock) \o Pushes(k) \o <<Rel(ExecutorsLock)>>

\* the bodies of a method: one for each of its paths
Bodies(method) ==
  CASE method = "sendTaskToExecutor" ->
         \* nothing (no free slot, unknown type); popTask finding no task;
         \* popTask, states.addTask and cbSendTask; the roll back by
         \* pushTask and states.removeTask, after cbSendTask or after the
         \* KeyError of self.__tasks[ taskId ]
         {<<>>, Region(QueuesLock),
          Region(QueuesLock) \o Region(StatesLock) \o <<Cb("sendTask")>>,
          Region(QueuesLock) \o Region(StatesLock) \o <<Cb("sendTask")>>
            \o Region(QueuesLock) \o Region(StatesLock),
          Region(QueuesLock) \o Region(StatesLock) \o Region(QueuesLock) \o Region(StatesLock)}
    [] method = "removeTask" ->
         \* the task is gone; or popTask, states.removeTask, the scan of the
         \* freezer, and the send to the executor that held the task
         {<<>>,
          Region(QueuesLock) \o Region(StatesLock) \o Region(FreezerLock),
          Region(QueuesLock) \o Region(StatesLock) \o Region(FreezerLock)
            \o <<Do("sendTaskToExecutor")>>}
    [] method = "freezeTask" ->
         \* the region of the freezer lock; for a task frozen too often
         \* removeTask and, if failedOnTooFrozen, cbTaskError
         {Region(FreezerLock), Region(FreezerLock) \o <<Do("removeTask")>>,
          Region(FreezerLock) \o <<Do("removeTask"), Cb("taskError")>>}
    [] method = "fillLoop" ->
         \* the while loop of __fillExecutors
         {<<>>, <<Do("sendTaskToExecutor"), Do("fillLoop")>>}
    [] method = "dispatchNoDefrost" ->
         \* __dispatchTask( taskId, defrozeIfNeeded = False )
         {<<Cb("nextStage"), Do("freezeTask")>>, <<Cb("nextStage"), Do("removeTask")>>,
          <<Cb("nextStage"), Do("removeTask"), Cb("taskError")>>,
          <<Cb("nextStage")>> \o Region(QueuesLock) \o <<Do("fillLoop")>>}
    [] method = "unfreezeTasks" ->
         \* every round of the while loop takes the freezer lock, releases
         \* it and may dispatch the task it took out
         {<<>>, Region(FreezerLock), Region(FreezerLock) \o <<Do("unfreezeTasks")>>,
          Region(FreezerLock) \o <<Do("dispatchNoDefrost"), Do("unfreezeTasks")>>}
    [] method = "fillExecutors" -> {<<Do("unfreezeTasks"), Do("fillLoop")>>}
    [] method = "dispatchTask" ->
         \* cbDispatch in __getNextExecutor; then __freezeTask, or removeTask
         \* with or without cbTaskError, or pushTask and __fillExecutors
         {<<Cb("nextStage"), Do("freezeTask")>>, <<Cb("nextStage"), Do("removeTask")>>,
          <<Cb("nextStage"), Do("removeTask"), Cb("taskError")>>,
          <<Cb("nextStage")>> \o Region(QueuesLock) \o <<Do("fillExecutors")>>}
    [] method = "addExecutor" ->
         {Region(ExecutorsLock),
          <<Acq(ExecutorsLock)>> \o Region(StatesLock) \o <<Rel(ExecutorsLock)>>
            \o <<Do("fillExecutors")>>}
    [] method = "removeExecutor" ->
         {Region(ExecutorsLock)}
           \cup {Sec_removeExecutor(k) \o <<Cb("disconnectExecutor"), Do("fillExecutors")>> :
                   k \in 0..MaxCap}
    [] method = "addTask" ->
         {Region(TasksLock) \o <<Do("unfreezeTasks")>>,
          Region(TasksLock) \o <<Do("dispatchTask")>>}
    [] method = "taskProcessed" ->
         \* the early returns; the executor of unknown type; cbTaskProcessed
         \* failing; the task removed meanwhile; the usual end
         {<<>>, Region(StatesLock),
          Region(StatesLock) \o <<Do("dispatchTask")>>,
          Region(StatesLock) \o <<Cb("taskProcessed")>>,
          Region(StatesLock) \o <<Cb("taskProcessed"), Do("sendTaskToExecutor")>>,
          Region(StatesLock)
            \o <<Cb("taskProcessed"), Do("dispatchTask"), Do("sendTaskToExecutor")>>}
    [] method = "retryTask" ->
         {<<>>, Region(StatesLock), Region(StatesLock) \o <<Do("dispatchTask")>>}

\* the calls of the API that take a lock
LockingCalls ==
  {"addExecutor", "removeExecutor", "addTask", "removeTask", "taskProcessed", "retryTask"}

Holder(l) == {th \in Threads : l \in Range(thr[th].holds)}
Running(todo, holds) ==
  [Idle EXCEPT !.at = IF todo = <<>> THEN "idle" ELSE "locks", !.todo = todo, !.holds = holds]

\* "finally": of the calls to come, the releases of the locks held
RECURSIVE Unwind(_, _)
Unwind(todo, holds) ==
  IF todo = <<>> \/ holds = <<>> THEN <<>>
  ELSE IF Head(todo)[1] = "release" /\ Head(todo)[2] \in Range(holds)
       THEN <<Head(todo)>> \o Unwind(Tail(todo), SelectSeq(holds, LAMBDA l : l # Head(todo)[2]))
       ELSE Unwind(Tail(todo), holds)

\* a thread calls the API
L_call(th, method) ==
  /\ thr[th].at = "idle"
  /\ ConcStep(th, Cur, Running(<<Do(method)>>, <<>>), FALSE)

\* the thread enters a method and takes one of its paths
L_enter(th) ==
  /\ thr[th].at = "locks"
  /\ Head(thr[th].todo)[1] = "call"
  /\ \E body \in Bodies(Head(thr[th].todo)[2]) :
       ConcStep(th, Cur, Running(body \o Tail(thr[th].todo), thr[th].holds), FALSE)

\* the thread calls a callback; the callback returns, or it raises and
\* nothing catches the exception (cbTaskError): the call ends
L_callback(th, raises) ==
  /\ thr[th].at = "locks"
  /\ Head(thr[th].todo)[1] = "callback"
  /\ raises => Head(thr[th].todo)[2] = "taskError"
  /\ ConcStep(th, Cur,
              Running(IF raises THEN Unwind(Tail(thr[th].todo), thr[th].holds)
                      ELSE Tail(thr[th].todo),
                      thr[th].holds),
              raises)

\* lock.acquire(): the thread waits while another thread, or itself, holds the lock
L_acquire(th) ==
  /\ thr[th].at = "locks"
  /\ Head(thr[th].todo)[1] = "acquire"
  /\ Holder(Head(thr[th].todo)[2]) = {}
  /\ ConcStep(th, Cur,
              Running(Tail(thr[th].todo), Append(thr[th].holds, Head(thr[th].todo)[2])),
              FALSE)

\* lock.release()
L_release(th) ==
  /\ thr[th].at = "locks"
  /\ Head(thr[th].todo)[1] = "release"
  /\ ConcStep(th, Cur,
              Running(Tail(thr[th].todo),
                      SelectSeq(thr[th].holds, LAMBDA l : l # Head(thr[th].todo)[2])),
              FALSE)

\* an exception inside a locked region: the finally blocks run, the call ends
L_raise(th) ==
  /\ thr[th].at = "locks"
  /\ thr[th].holds # <<>>
  /\ Unwind(thr[th].todo, thr[th].holds) # thr[th].todo
  /\ ConcStep(th, Cur, Running(Unwind(thr[th].todo, thr[th].holds), thr[th].holds), FALSE)

NextLocks ==
  \/ \E th \in Threads, method \in LockingCalls : UNCHANGED steps /\ L_call(th, method)
  \/ \E th \in Threads : UNCHANGED steps /\ L_enter(th)
  \/ \E th \in Threads, raises \in BOOLEAN : UNCHANGED steps /\ L_callback(th, raises)
  \/ \E th \in Threads : UNCHANGED steps /\ L_acquire(th)
  \/ \E th \in Threads : UNCHANGED steps /\ L_release(th)
  \/ \E th \in Threads : UNCHANGED steps /\ L_raise(th)

SpecLocks == Init /\ [][NextLocks]_vars

\* SpecTrip: tasks on their way through the executor types.  Executors of
\* capacity 1 connect, tasks are added, and the executors report the tasks
\* they hold as processed or to be retried; cbDispatch answers an executor
\* type or "no more executors", cbSendTask accepts every task and
\* cbTaskProcessed answers S_OK.
Staged(S, dispatched) ==
  {o \in S : /\ \A t \in dispatched : o.next[t] \in Types \cup {Done}
             /\ \A e \in Executors : o.send[e]}

TripAddTask(taskId) ==
  \E o \in Staged(AddTaskOracles(taskId), {taskId} \cup Defrostable) :
    Commit(D_addTask(Cur, o, taskId, 1))

TripAddExecutor(eType, eId) ==
  \E o \in Staged(AddExecutorOracles(eId), Defrostable) :
    Commit(D_addExecutor(Cur, o, eType, eId, 1))

TripTaskProcessed(eId, taskId) ==
  \E o \in Staged(ReportOracles(eId, taskId, {TRUE}), {taskId} \cup Defrostable) :
    Commit(D_taskProcessed(Cur, o, eId, taskId, NoObj))

TripRetryTask(eId, taskId) ==
  \E o \in Staged(ReportOracles(eId, taskId, {TRUE}), {taskId} \cup Defrostable) :
    Commit(D_retryTask(Cur, o, eId, taskId))

NextTrip ==
  \/ \E taskId \in Tasks \ DOMAIN tasks : Within(TripSteps) /\ TripAddTask(taskId)
  \/ \E eType \in Types, eId \in Executors \ Connected :
       Within(TripSteps) /\ TripAddExecutor(eType, eId)
  \/ \E eId \in Connected, taskId \in DOMAIN tasks :
       Within(TripSteps) /\ Holds(eId, taskId) /\ TripTaskProcessed(eId, taskId)
  \/ \E eId \in Connected, taskId \in DOMAIN tasks :
       Within(TripSteps) /\ Holds(eId, taskId) /\ TripRetryTask(eId, taskId)

SpecTrip == Init /\ [][NextTrip]_vars

\* SpecHappy: everything goes well.  Executors connect and stay, tasks are
\* added while an executor is connected, cbDispatch answers a type that has
\* a connected executor or, after HappyStages stages at the latest, "no more
\* executors", cbSendTask accepts every task and cbTaskProcessed answers
\* S_OK; an executor that holds a task reports it sooner or later (the
\* fairness of Reporting).  tripLog counts, for every task added,
\* the cbSendTask calls that handed it to an executor and the
\* cbTaskProcessed calls that reported it.
Untracked == [sent |-> 0, done |-> 0]
ReportBy(eId, taskId) == [eId |-> eId, taskId |-> taskId, flip |-> ~reported.flip]
ReportsOf(r, taskId) == {i \in Calls(r, "taskProcessed", taskId) : r.log[i].ok}
HandoversOf(r, taskId) == {i \in Calls(r, "sendTask", taskId) : r.log[i].ok}

PolicyObeyed(r) ==
  \A i \in DOMAIN r.log :
    r.log[i].cb = "nextStage" =>
      IF Len(r.log[i].path) >= HappyStages
      THEN r.log[i].etype = Done
      ELSE r.log[i].etype \in {r.idMap[e] : e \in DOMAIN r.idMap} \cup {Done}

HappyCommit(r, added, last) ==
  /\ PolicyObeyed(r)
  /\ Store(r)
  /\ raisedBefore' = (raisedBefore \/ Raised(r))
  /\ tripLog' = [t \in DOMAIN tripLog \cup added |->
                   LET was == IF t \in added \/ t \notin DOMAIN tripLog
                              THEN Untracked ELSE tripLog[t]
                   IN  [sent |-> was.sent + Cardinality(HandoversOf(r, t)),
                        done |-> was.done + Cardinality(ReportsOf(r, t))]]
  /\ reported' = last
  /\ UNCHANGED <<failedOnTooFrozen, freezeOnFailedDispatch, freezeOnUnknownExecutor,
                 now, pushStamp, pushCount, aheadUsed, thr>>

HappyAddExecutor(eType, eId, mt) ==
  /\ eId \notin Connected
  /\ \E o \in Staged(AddExecutorOracles(eId), Defrostable) :
       HappyCommit(D_addExecutor(Cur, o, eType, eId, mt), {}, reported)

HappyAddTask(taskId) ==
  /\ taskId \notin DOMAIN tasks
  /\ Connected # {}
  /\ \E o \in Staged(AddTaskOracles(taskId), {taskId} \cup Defrostable) :
       HappyCommit(D_addTask(Cur, o, taskId, 1), {taskId}, reported)

HappyTaskProcessed(eId, taskId) ==
  /\ taskId \in DOMAIN tasks
  /\ Holds(eId, taskId)
  /\ \E o \in Staged(ReportOracles(eId, taskId, {TRUE}), {taskId} \cup Defrostable) :
       HappyCommit(D_taskProcessed(Cur, o, eId, taskId, NoObj), {}, ReportBy(eId, taskId))

NextHappy ==
  \/ \E eType \in Types, eId \in Executors, mt \in 1..MaxCap :
       UNCHANGED steps /\ HappyAddExecutor(eType, eId, mt)
  \/ \E taskId \in Tasks : Within(HappyAdds) /\ HappyAddTask(taskId)
  \/ \E eId \in Executors, taskId \in Tasks :
       UNCHANGED steps /\ HappyTaskProcessed(eId, taskId)

\* the step in which executor eId reports taskId, told by what it leaves in
\* reported; it can be taken whenever eId holds taskId (C16_HappyCompletion
\* checks that taskProcessed then does go well)
Reporting(eId, taskId) ==
  /\ taskId \in DOMAIN tasks
  /\ Holds(eId, taskId)
  /\ reported' = ReportBy(eId, taskId)

SpecHappy ==
  /\ Init
  /\ [][NextHappy]_vars
  /\ \A eId \in Executors, taskId \in Tasks : WF_reported(Reporting(eId, taskId))

\* ================================================================ claims
\* where a task is: the positions it has in the type queues, the executors
\* whose assigned set holds it, the positions it has in the freezer
QueuePlaces(d, taskId) ==
  {p \in UNION {{<<ty, i>> : i \in DOMAIN d.queues[ty]} : ty \in DOMAIN d.queues} :
     d.queues[p[1]][p[2]] = taskId}
ExecPlaces(d, taskId) == {e \in DOMAIN d.execTasks : taskId \in d.execTasks[e]}
FreezerPlaces(d, taskId) == {i \in DOMAIN d.taskFreezer : d.taskFreezer[i] = taskId}
Residences(d, taskId) ==
  Cardinality(QueuePlaces(d, taskId)) + Cardinality(ExecPlaces(d, taskId))
    + Cardinality(FreezerPlaces(d, taskId))

\* C1 (single residence): after every call, in a run in which no call raised,
\* every task of the task table is in exactly one place: one position of one
\* type queue, the assigned set of one executor, or the freezer.
C1_SingleResidence ==
  ~raisedBefore => \A t \in DOMAIN tasks : Residences(Cur, t) = 1

\* C1, the state the claim excludes: an executor that answered is connected
\* and idle, its task is still in the table and is nowhere
C1_TaskNowhere ==
  /\ ~raisedBefore
  /\ \E t \in DOMAIN tasks : Residences(Cur, t) = 0 /\ tasks[t].pathExecuted = <<>>

\* C2 (capacity): after every call, in a run in which no call raised, no
\* connected executor holds more tasks than the capacity max(1, maxTasks) it
\* was added with.
C2_CapacityRespected ==
  ~raisedBefore =>
    \A e \in Connected \cap DOMAIN execTasks : Cardinality(execTasks[e]) <= maxTasks[e]

\* C2, the state the claim excludes: an executor of capacity 1 holding a task
\* that it has already processed once together with another one
C2_OverCapacity ==
  /\ ~raisedBefore
  /\ \E e \in Connected \cap DOMAIN execTasks :
       /\ maxTasks[e] = 1
       /\ Cardinality(execTasks[e]) = 2
       /\ \E t \in execTasks[e] : t \in DOMAIN tasks /\ tasks[t].pathExecuted # <<>>

\* the task is gone from the table and from every index
Gone(d, taskId) ==
  /\ taskId \notin DOMAIN d.tasks
  /\ QueuePlaces(d, taskId) = {}
  /\ taskId \notin DOMAIN d.taskInQueue
  /\ ExecPlaces(d, taskId) = {}
  /\ taskId \notin DOMAIN d.taskInExec
  /\ FreezerPlaces(d, taskId) = {}

\* C3 (cancellation): in every state of a run in which no call raised,
\* removeTask( t ) of a task of the table, if it returns, leaves t out of the
\* table, of every type queue, of every assigned set and of the freezer,
\* whatever the callbacks answer.
C3_RemoveTaskCancels ==
  ~raisedBefore =>
    \A t \in DOMAIN tasks : \A o \in RemoveTaskOracles(t) :
      ~Raised(D_removeTask(Cur, o, t)) => Gone(D_removeTask(Cur, o, t), t)

\* C3, the state the claim excludes: a task that is not in the table and
\* still waits in a type queue
C3_RemovedStillQueued ==
  /\ ~raisedBefore
  /\ \E t \in Tasks : t \notin DOMAIN tasks /\ QueuePlaces(Cur, t) # {}

\* C4 (index containment): after every call, in a run in which no call
\* raised, every task of an assigned set, every key of taskInQueue and every
\* task of the freezer is a key of the task table.
C4_IndexContainment ==
  ~raisedBefore =>
    /\ UNION {execTasks[e] : e \in DOMAIN execTasks} \subseteq DOMAIN tasks
    /\ DOMAIN taskInQueue \subseteq DOMAIN tasks
    /\ Range(taskFreezer) \subseteq DOMAIN tasks

\* C4, the state the claim excludes: taskInQueue names a task that is not in
\* the table
C4_StaleQueueIndex ==
  /\ ~raisedBefore
  /\ \E t \in DOMAIN taskInQueue : t \notin DOMAIN tasks

\* addTask( t ) dispatching t, new or swept out of the freezer, with a
\* cbDispatch that answers S_ERROR for it
FailingDispatches(taskId) == {o \in AddTaskOracles(taskId) : o.next[taskId] = Fail}
CountOf(d, taskId) == IF taskId \in DOMAIN d.tasks THEN d.tasks[taskId].frozenCount ELSE 0

\* what the freeze attempt number k + 1 leaves when it is the call's only
\* dispatch of t: r is the state after the call, report is failedOnTooFrozen
Escalated(r, taskId, k, report) ==
  IF k + 1 <= 9
  THEN /\ taskId \in DOMAIN r.tasks
       /\ r.tasks[taskId].frozenCount = k + 1
       /\ Cardinality(FreezerPlaces(r, taskId)) = 1
       /\ Calls(r, "taskError", taskId) = {}
  ELSE /\ Gone(r, taskId)
       /\ Cardinality(Calls(r, "taskError", taskId)) = (IF report THEN 1 ELSE 0)

\* C9 (freeze escalation): with freezeOnFailedDispatch set, a dispatch of t
\* that fails is a freeze attempt.  Attempts 1 to 9 leave t in the freezer
\* with the attempt's number as frozenCount and call no taskError; attempt 10
\* leaves t out of the table, the freezer, the queues and the assigned sets,
\* and calls taskError once if failedOnTooFrozen is set and not at all
\* otherwise.  A task that is not in the table is never dispatched by a call
\* that does not name it.
C9_FreezeEscalation ==
  /\ \A t \in Tasks : \A o \in FailingDispatches(t) : \A obj \in Objs :
       LET r == D_addTask(Cur, o, t, obj)
       IN  (freezeOnFailedDispatch /\ ~Raised(r) /\ Cardinality(Calls(r, "nextStage", t)) = 1)
             => Escalated(r, t, CountOf(Cur, t), failedOnTooFrozen)
  /\ \A t \in Tasks \ DOMAIN tasks : \A t2 \in Tasks \ {t} :
       \A o \in AddTaskOracles(t2) : \A obj \in Objs :
         Calls(D_addTask(Cur, o, t2, obj), "nextStage", t) = {}

\* C9, its case: t was frozen nine times and its age lets the sweep dispatch
\* it; the dispatch fails, t is removed and taskError is called
C9_TenthAttempt ==
  \E t \in DOMAIN tasks : \E o \in FailingDispatches(t) :
    /\ tasks[t].frozenCount = 9
    /\ t \in Frozen
    /\ failedOnTooFrozen
    /\ t \notin DOMAIN D_addTask(Cur, o, t, 1).tasks
    /\ Cardinality(Calls(D_addTask(Cur, o, t, 1), "taskError", t)) = 1

\* C10 (freeze bound): every task of the table has frozenCount <= 10, every
\* task of the freezer has frozenCount <= 9.
C10_FreezeBound ==
  /\ \A t \in DOMAIN tasks : tasks[t].frozenCount <= 10
  /\ \A t \in Frozen \cap DOMAIN tasks : tasks[t].frozenCount <= 9

\* C10, its case: a task in the freezer that was frozen nine times
C10_FrozenNineTimes ==
  \E t \in Frozen \cap DOMAIN tasks : tasks[t].frozenCount = 9

\* the tasks waiting for an executor of a type
Waiting(eType) == {t \in DOMAIN taskInQueue : taskInQueue[t] = eType}

\* C6 (FIFO per type): for a type that never had an ahead = True push,
\* popTask returns the waiting task that was pushed first, and nothing when
\* no task waits, whatever pushTask, popTask and deleteTask calls were made on
\* this and on the other types.
C6_FifoPerType ==
  \A ty \in Types \ aheadUsed :
    LET popped == EQ_popTask(Cur, ty).ret.v
    IN  IF Waiting(ty) = {} THEN popped = NoTask
        ELSE /\ popped \in Waiting(ty)
             /\ \A t \in Waiting(ty) : pushStamp[popped] <= pushStamp[t]

\* C6, its case: two tasks wait for a type that had no ahead = True push,
\* the one pushed later has the smaller taskId, and a task pushed before
\* them has left the queues
C6_TwoWaiting ==
  \E ty \in Types \ aheadUsed : \E t1, t2 \in Waiting(ty) :
    /\ t1 < t2
    /\ pushStamp[t2] < pushStamp[t1]
    /\ pushCount > Cardinality(DOMAIN pushStamp)

\* the cbSendTask calls of a call, in the order they were made
Sends(r) == SelectSeq(r.log, LAMBDA ev : ev.cb = "sendTask")
FailedSends(r) == SelectSeq(r.log, LAMBDA ev : ev.cb = "sendTask" /\ ~ev.ok)
Fresh(d) == [d EXCEPT !.log = <<>>, !.ret = RNone]

\* callbacks that refuse the task sent to eId / that accept every task
SendFails(eId) == {o \in Oracles({}, Connected, {TRUE}, {}) : ~o.send[eId]}
SendsAccepted == {o \in Oracles(Defrostable, Executors, {TRUE}, {}) : \A e \in Executors : o.send[e]}

\* the next fill for the type, run by an executor e2 that connects, sends t
\* first and leaves it assigned to the executor that accepted it
Resent(r, eType, taskId) ==
  \A e2 \in Executors \ DOMAIN r.idMap : \A o2 \in SendsAccepted :
    LET r2 == D_addExecutor(Fresh(r), o2, eType, e2, 1)
    IN  /\ Sends(r2) # <<>>
        /\ Head(Sends(r2)).task = taskId
        /\ ExecPlaces(r2, taskId) = {Head(Sends(r2)).exec}

\* what a refused send of t to eId leaves: d before the attempt, r after it
RolledBack(d, r, eId, taskId) ==
  /\ ~Raised(r)
  /\ r.ret = S_ERROR
  /\ taskId \in DOMAIN r.tasks
  /\ d.idMap[eId] \in DOMAIN r.queues
  /\ r.queues[d.idMap[eId]] # <<>>
  /\ Head(r.queues[d.idMap[eId]]) = taskId
  /\ Cardinality(QueuePlaces(r, taskId)) = 1
  /\ taskId \in DOMAIN r.taskInQueue
  /\ ExecPlaces(r, taskId) = {}
  /\ taskId \notin DOMAIN r.taskInExec
  /\ Resent(r, d.idMap[eId], taskId)

\* callbacks of addExecutor( eType, eId ) that refuse some task
Refusing(eId) ==
  {o \in Oracles(Defrostable, Connected \cup {eId}, {TRUE}, {}) : \E e \in Executors : ~o.send[e]}

\* C8 (send-failure rollback): in every state of a run in which no call
\* raised, when cbSendTask refuses the task t that __sendTaskToExecutor sends
\* to eId, the method returns the failure, t is in the table and again at the
\* head of the queue of eId's type, t is in no assigned set, eId has the free
\* slots it had, and the next fill for that type sends t again.  The sends
\* are the one to an executor with a free slot, the one that ends removeTask,
\* the one that ends taskProcessed and the one of the fill of addExecutor.
C8_SendFailureRollback ==
  ~raisedBefore =>
    /\ \A eId \in Connected : \A eType \in {NoType, idMap[eId]} : \A checkIdle \in BOOLEAN :
         \A o \in SendFails(eId) :
           LET r == SendTaskToExecutor(Cur, o, eId, eType, checkIdle)
           IN  (ES_freeSlots(Cur, eId) > 0 /\ FailedSends(r) # <<>>) =>
                 /\ RolledBack(Cur, r, eId, Head(FailedSends(r)).task)
                 /\ ES_freeSlots(r, eId) = ES_freeSlots(Cur, eId)
    /\ \A t \in DOMAIN tasks : \A o \in RemoveTaskOracles(t) :
         LET r == D_removeTask(Cur, o, t)
         IN  FailedSends(r) # <<>> =>
               RolledBack(Cur, r, Head(FailedSends(r)).exec, Head(FailedSends(r)).task)
    /\ \A eId \in Connected : \A t \in DOMAIN tasks : \A o \in ReportOracles(eId, t, {TRUE}) :
         LET r == D_taskProcessed(Cur, o, eId, t, NoObj)
         IN  (~Raised(r) /\ FailedSends(r) # <<>>) =>
               RolledBack(Cur, [r EXCEPT !.ret = S_ERROR], Head(FailedSends(r)).exec,
                          Head(FailedSends(r)).task)
    /\ \A eId \in Executors \ Connected : \A eType \in Types : \A o \in Refusing(eId) :
         LET r == D_addExecutor(Cur, o, eType, eId, 1)
         IN  FailedSends(r) # <<>> =>
               RolledBack(r, [r EXCEPT !.ret = S_ERROR, !.exc = NoExc],
                          Head(FailedSends(r)).exec, Head(FailedSends(r)).task)

\* C8, the state in which the rollback goes wrong: an executor holds a task
\* that is also in the freezer, and another executor has yet to connect
C8_HeldAndFrozen ==
  /\ ~raisedBefore
  /\ Executors \ Connected # {}
  /\ \E t \in Frozen \cap DOMAIN tasks : \E e \in Connected : Holds(e, t)

\* the tasks a call handed to executors that accepted them, then the tasks it
\* left waiting for the type: the order in which the type serves them
AcceptedSends(r) == SelectSeq(r.log, LAMBDA ev : ev.cb = "sendTask" /\ ev.ok)
QueueOf(d, eType) == IF eType \in DOMAIN d.queues THEN d.queues[eType] ELSE <<>>
Served(r, eType) ==
  [i \in 1..Len(AcceptedSends(r)) |-> AcceptedSends(r)[i].task] \o QueueOf(r, eType)
FreeElsewhere(eId) ==
  \E e2 \in Connected \ {eId} : idMap[e2] = idMap[eId] /\ ES_freeSlots(Cur, e2) > 0

\* what removeExecutor( eId ) leaves: held are the tasks eId held, waiting
\* the tasks that waited for its type
LossHandled(r, eId, eType, held, waiting) ==
  /\ eId \notin DOMAIN r.execTasks
  /\ \A t \in DOMAIN r.taskInExec : r.taskInExec[t] # eId
  /\ \A h \in held :
       \/ h \in Range(QueueOf(r, eType))
       \/ \E e2 \in ExecPlaces(r, h) : e2 \in DOMAIN r.idMap /\ r.idMap[e2] = eType
  /\ \A i, j \in DOMAIN Served(r, eType) :
       (Served(r, eType)[i] \in waiting \ held /\ Served(r, eType)[j] \in held) => j < i

\* C7 (executor loss): in every state of a run in which no call raised,
\* removeExecutor( eId ) of a connected executor, if it returns, leaves no
\* task assigned to eId; every task eId held is either waiting for eId's type
\* or assigned to another executor of that type, and is served before every
\* task that was waiting for the type; and if another executor of the type
\* had a free slot, the first task the call hands over is one eId held.
C7_ExecutorLoss ==
  ~raisedBefore =>
    \A eId \in Connected : \A o \in RemoveExecutorOracles(eId) :
      LET r == D_removeExecutor(Cur, o, eId)
      IN  ~Raised(r) =>
            /\ LossHandled(r, eId, idMap[eId], HeldBy(eId), Range(QueueOf(Cur, idMap[eId])))
            /\ (HeldBy(eId) # {} /\ FreeElsewhere(eId)) =>
                 /\ AcceptedSends(r) # <<>>
                 /\ Head(AcceptedSends(r)).task \in HeldBy(eId)
                 /\ Head(AcceptedSends(r)).exec # eId

\* C7, the state in which the reinsertion goes wrong: an executor holds a
\* task that also waits for its type, behind another task
C7_HeldBehindWaiting ==
  /\ ~raisedBefore
  /\ \E e \in Connected : \E t \in HeldBy(e) :
       /\ t \in Range(QueueOf(Cur, idMap[e]))
       /\ Head(QueueOf(Cur, idMap[e])) # t

\* C5 (at most one concurrent assignment): while calls of the dispatcher
\* run at the same time, no task is in the assigned sets of two executors,
\* and a task that is in the assigned set of an executor has that executor,
\* and no other, in taskInExec.
C5_OneAssignment ==
  \A t \in Tasks :
    /\ Cardinality(ExecPlaces(Cur, t)) <= 1
    /\ \A e \in ExecPlaces(Cur, t) : t \in DOMAIN taskInExec /\ taskInExec[t] = e

\* C5, the state the claim excludes: a task in the assigned sets of two
\* executors while a thread is rolling its send back
C5_TwoExecutors ==
  \E t \in Tasks : \E th \in Threads :
    /\ Cardinality(ExecPlaces(Cur, t)) = 2
    /\ thr[th].at = "pushed"
    /\ thr[th].taskId = t

\* a taskObj that no task of the table carries
NewObj == Cardinality(Objs) + 1

\* the record of t is what it was: same taskObj, path and retries, and a
\* frozenCount that was not reset
RecordKept(d, r, taskId) ==
  taskId \in DOMAIN r.tasks =>
    /\ r.tasks[taskId].taskObj = d.tasks[taskId].taskObj
    /\ r.tasks[taskId].pathExecuted = d.tasks[taskId].pathExecuted
    /\ r.tasks[taskId].retries = d.tasks[taskId].retries
    /\ r.tasks[taskId].frozenCount >= d.tasks[taskId].frozenCount

\* t has no queue entry and no residence more than it had, and not two
NotDoubled(d, r, taskId) ==
  /\ Cardinality(QueuePlaces(r, taskId)) <= Max(1, Cardinality(QueuePlaces(d, taskId)))
  /\ Residences(r, taskId) <= Max(1, Residences(d, taskId))

\* C11 (idempotent add): in every state of a run in which no call raised,
\* addTask( t, obj2 ) of a task t of the table returns S_OK, leaves the
\* taskObj, the path and the retries of t as they were and its frozenCount
\* not smaller, and gives t no second queue entry and no second residence,
\* whatever the callbacks answer.
C11_IdempotentAdd ==
  ~raisedBefore =>
    \A t \in DOMAIN tasks : \A o \in AddTaskOracles(t) :
      LET r == D_addTask(Cur, o, t, NewObj)
      IN  /\ ~Raised(r)
          /\ r.ret = S_OK(0)
          /\ RecordKept(Cur, r, t)
          /\ NotDoubled(Cur, r, t)

\* C11, the state in which the call does not return: the sweep of addTask
\* finds a task old enough to be dispatched, an executor is connected and
\* refuses the task
C11_SweepMeetsRefusal ==
  /\ ~raisedBefore
  /\ \E t \in DOMAIN tasks : \E o \in AddTaskOracles(t) :
       /\ DefrostableByAge # {}
       /\ FailedSends(D_addTask(Cur, o, t, NewObj)) # <<>>
       /\ D_addTask(Cur, o, t, NewObj).exc = "AttributeError"

\* the path cbDispatch was given at the i-th callback of the call
PathGiven(r, i) == r.log[i].path

\* every cbDispatch the call made for t was given the path t had, followed by
\* stages, and that is the path t is left with
StagePassed(d, r, taskId, stages) ==
  /\ \A i \in Calls(r, "nextStage", taskId) :
       PathGiven(r, i) = d.tasks[taskId].pathExecuted \o stages
  /\ taskId \in DOMAIN r.tasks =>
       r.tasks[taskId].pathExecuted = d.tasks[taskId].pathExecuted \o stages

\* the call made no cbTaskProcessed and left the paths alone
NoStage(d, r) ==
  \A t \in DOMAIN d.tasks :
    Calls(r, "taskProcessed", t) = {} /\ StagePassed(d, r, t, <<>>)

\* C12 (round-trip processing): in every state of a run in which no call
\* raised, taskProcessed( eId, t ) for a task t that eId holds calls
\* cbTaskProcessed once for t, with the type of eId and before any cbDispatch
\* for t; t is then dispatched, and every cbDispatch for t is given the path
\* t had followed by the type of eId; the other tasks get no cbTaskProcessed
\* and their paths are passed and left as they were.  addTask, retryTask,
\* addExecutor call no cbTaskProcessed and pass and leave every path as it
\* was.  So the k-th stage of a task is reported once with its type and the
\* dispatch after it is given the k types in the order of the visits.
C12_RoundTrip ==
  ~raisedBefore =>
    /\ \A eId \in Connected : \A t \in HeldBy(eId) \cap DOMAIN tasks :
         \A o \in Staged(ReportOracles(eId, t, {TRUE}), {t} \cup Defrostable) :
           LET r == D_taskProcessed(Cur, o, eId, t, NoObj)
           IN  /\ Cardinality(Calls(r, "taskProcessed", t)) = 1
               /\ \A i \in Calls(r, "taskProcessed", t) :
                    /\ r.log[i].etype = idMap[eId]
                    /\ r.log[i].ok
                    /\ \A j \in Calls(r, "nextStage", t) : i < j
               /\ Calls(r, "nextStage", t) # {}
               /\ StagePassed(Cur, r, t, <<idMap[eId]>>)
               /\ \A t2 \in DOMAIN tasks \ {t} :
                    Calls(r, "taskProcessed", t2) = {} /\ StagePassed(Cur, r, t2, <<>>)
    /\ \A eId \in Connected : \A t \in HeldBy(eId) \cap DOMAIN tasks :
         \A o \in Staged(ReportOracles(eId, t, {TRUE}), {t} \cup Defrostable) :
           NoStage(Cur, D_retryTask(Cur, o, eId, t))
    /\ \A t \in Tasks \ DOMAIN tasks :
         \A o \in Staged(AddTaskOracles(t), {t} \cup Defrostable) :
           LET r == D_addTask(Cur, o, t, 1)
           IN  /\ NoStage(Cur, r)
               /\ Calls(r, "taskProcessed", t) = {}
               /\ \A i \in Calls(r, "nextStage", t) : PathGiven(r, i) = <<>>
    /\ \A eId \in Executors \ Connected : \A eType \in Types :
         \A o \in Staged(AddExecutorOracles(eId), Defrostable) :
           NoStage(Cur, D_addExecutor(Cur, o, eType, eId, 1))

\* C12, the state in which a stage is not reported: a connected executor
\* holds a task of the table in its assigned set, taskInExec does not name
\* the task, and the report of the executor is turned down without a
\* cbTaskProcessed
C12_ReportRejected ==
  \E eId \in Connected : \E t \in HeldBy(eId) \cap DOMAIN tasks :
    /\ ~raisedBefore
    /\ t \notin DOMAIN taskInExec
    /\ D_taskProcessed(Cur, NoOracle, eId, t, NoObj).ret = S_ERROR
    /\ D_taskProcessed(Cur, NoOracle, eId, t, NoObj).log = <<>>

\* the executors the call sent t to and that accepted it
SentTo(r, taskId) ==
  {r.log[i].exec : i \in {j \in Calls(r, "sendTask", taskId) : r.log[j].ok}}

\* t waits for the type, or is with an executor of the type to which the
\* call sent it
QueuedOrDelivered(r, taskId, eType) ==
  \/ taskId \in Range(QueueOf(r, eType))
  \/ \E e \in SentTo(r, taskId) :
       e \in DOMAIN r.idMap /\ r.idMap[e] = eType /\ e \in ExecPlaces(r, taskId)

\* C13 (retry): in every state of a run in which no call raised,
\* retryTask( eId, t ) for a task t that eId holds asks cbDispatch once for
\* t, with the path t had; t is no longer with eId unless the call sent it
\* there again; if t is still in the table its retries are one more and its
\* path and taskObj are what they were; and when cbDispatch answers the type
\* of eId, t waits for that type or is with an executor of that type.
C13_Retry ==
  ~raisedBefore =>
    \A eId \in Connected : \A t \in HeldBy(eId) \cap DOMAIN tasks :
      \A o \in Staged(ReportOracles(eId, t, {TRUE}), {t} \cup Defrostable) :
        LET r == D_retryTask(Cur, o, eId, t)
        IN  /\ Cardinality(Calls(r, "nextStage", t)) = 1
            /\ \A i \in Calls(r, "nextStage", t) : PathGiven(r, i) = tasks[t].pathExecuted
            /\ Holds(eId, t) /\ (t \in r.execTasks[eId] => eId \in SentTo(r, t))
            /\ t \in DOMAIN r.tasks =>
                 /\ r.tasks[t].retries = tasks[t].retries + 1
                 /\ r.tasks[t].pathExecuted = tasks[t].pathExecuted
                 /\ r.tasks[t].taskObj = tasks[t].taskObj
            /\ o.next[t] = idMap[eId] =>
                 /\ t \in DOMAIN r.tasks
                 /\ QueuedOrDelivered(r, t, idMap[eId])

\* C13, the state in which the retry is lost: a connected executor holds a
\* task of the table in its assigned set, taskInExec does not name the
\* task, and retryTask answers S_ERROR, dispatches nothing and counts no retry
C13_RetryRejected ==
  \E eId \in Connected : \E t \in HeldBy(eId) \cap DOMAIN tasks :
    /\ ~raisedBefore
    /\ t \notin DOMAIN taskInExec
    /\ D_retryTask(Cur, NoOracle, eId, t).ret = S_ERROR
    /\ D_retryTask(Cur, NoOracle, eId, t).log = <<>>
    /\ D_retryTask(Cur, NoOracle, eId, t).tasks[t].retries = tasks[t].retries

\* the call left the task table, the queues, the assignments and the freezer
\* as they were
Untouched(d, r) ==
  /\ r.tasks = d.tasks
  /\ r.queues = d.queues /\ r.taskInQueue = d.taskInQueue
  /\ r.execTasks = d.execTasks /\ r.taskInExec = d.taskInExec
  /\ r.taskFreezer = d.taskFreezer
  /\ r.idMap = d.idMap /\ r.execTypes = d.execTypes
  /\ r.typeToId = d.typeToId /\ r.maxTasks = d.maxTasks

\* the call answered S_ERROR, called nothing and changed nothing
Rejected(d, r) == ~Raised(r) /\ r.ret = S_ERROR /\ r.log = <<>> /\ Untouched(d, r)

\* the report of eId about t does not meet the preconditions
Unwarranted(eId, taskId) ==
  taskId \notin DOMAIN tasks \/ eId \notin Connected \/ ~Holds(eId, taskId)

C15_CallbacksContained ==
  ~raisedBefore =>
    /\ \A t \in Tasks : \A o \in AddTaskOracles(t) :
         D_addTask(Cur, o, t, 1).exc # CallbackError
    /\ \A t \in Tasks : \A o \in RemoveTaskOracles(t) :
         D_removeTask(Cur, o, t).exc # CallbackError
    /\ \A eId \in Executors : \A eType \in Types : \A o \in AddExecutorOracles(eId) :
         D_addExecutor(Cur, o, eType, eId, 1).exc # CallbackError
    /\ \A eId \in Executors : \A o \in RemoveExecutorOracles(eId) :
         D_removeExecutor(Cur, o, eId).exc # CallbackError
    /\ \A eId \in Executors : \A t \in Tasks : \A o \in ReportOracles(eId, t, BOOLEAN) :
         /\ D_taskProcessed(Cur, o, eId, t, NoObj).exc # CallbackError
         /\ D_retryTask(Cur, o, eId, t).exc # CallbackError

\* C15, the state in which an exception gets out: failed dispatches are not
\* frozen, cbDispatch fails for a new task and cbTaskError raises; addTask
\* removes the task and ends by the exception of cbTaskError
C15_ErrorCallbackRaises ==
  \E t \in Tasks \ DOMAIN tasks : \E o \in AddTaskOracles(t) :
    /\ ~raisedBefore
    /\ ~freezeOnFailedDispatch
    /\ o.next[t] = Fail
    /\ o.err
    /\ D_addTask(Cur, o, t, 1).exc = CallbackError
    /\ Calls(D_addTask(Cur, o, t, 1), "taskError", t) # {}
    /\ t \notin DOMAIN D_addTask(Cur, o, t, 1).tasks

\* what tripLog says of a task against where the task is: as many reports as
\* stages in its path, and one handover per report, plus the one that put it
\* where it is if an executor holds it
OncePerStage(taskId) ==
  IF taskId \in DOMAIN tasks
  THEN /\ tripLog[taskId].done = Len(tasks[taskId].pathExecuted)
       /\ tripLog[taskId].sent =
            tripLog[taskId].done + (IF ExecPlaces(Cur, taskId) # {} THEN 1 ELSE 0)
  ELSE tripLog[taskId].sent = tripLog[taskId].done

\* no call that goes well, other than addTask( t ), makes a callback for t
NoLateCallback(taskId) ==
  /\ \A t2 \in Tasks \ (DOMAIN tasks \cup {taskId}) :
       \A o \in Staged(AddTaskOracles(t2), {t2} \cup Defrostable) :
         \A i \in DOMAIN D_addTask(Cur, o, t2, 1).log :
           D_addTask(Cur, o, t2, 1).log[i].task # taskId
  /\ \A eId \in Connected : \A t2 \in HeldBy(eId) \cap DOMAIN tasks :
       \A o \in Staged(ReportOracles(eId, t2, {TRUE}), {t2} \cup Defrostable) :
         \A i \in DOMAIN D_taskProcessed(Cur, o, eId, t2, NoObj).log :
           D_taskProcessed(Cur, o, eId, t2, NoObj).log[i].task # taskId
  /\ \A eId \in Executors \ Connected : \A eType \in Types :
       \A o \in Staged(AddExecutorOracles(eId), Defrostable) :
         \A i \in DOMAIN D_addExecutor(Cur, o, eType, eId, 1).log :
           D_addExecutor(Cur, o, eType, eId, 1).log[i].task # taskId

\* an executor that holds a task can report it: the task is in the table and
\* taskProcessed goes well under some answers the policy allows
CanBeReported(eId, taskId) ==
  /\ taskId \in DOMAIN tasks
  /\ \E o \in Staged(ReportOracles(eId, taskId, {TRUE}), {taskId} \cup Defrostable) :
       /\ PolicyObeyed(D_taskProcessed(Cur, o, eId, taskId, NoObj))
       /\ ~Raised(D_taskProcessed(Cur, o, eId, taskId, NoObj))

\* C16 (happy-path completion): when everything goes well, every task that
\* is in the table is removed from it later on; at every moment a task added
\* has been handed to an executor once for every stage of its path (and once
\* more if an executor holds it), and once for every report when it has left
\* the table; and no call makes a callback for a task that has left the table.
C16_HappyCompletion ==
  /\ [](\A t \in DOMAIN tripLog : OncePerStage(t))
  /\ [](\A t \in Tasks \ DOMAIN tasks : NoLateCallback(t))
  /\ [](\A eId \in Connected : \A t \in HeldBy(eId) : CanBeReported(eId, t))
  /\ \A t \in Tasks : (t \in DOMAIN tasks) ~> (t \notin DOMAIN tasks)

\* C16, its case: a task went through HappyStages stages and left the table
\* while another task is still with an executor
C16_OneDoneOneBusy ==
  \E t \in DOMAIN tripLog \ DOMAIN tasks : \E t2 \in DOMAIN tasks :
    /\ tripLog[t].done = HappyStages
    /\ tripLog[t].sent = HappyStages
    /\ ExecPlaces(Cur, t2) # {}

\* taskId is in the freezer with the type hint eType
FrozenFor(taskId, eType) ==
  taskId \in Frozen \cap DOMAIN tasks /\ tasks[taskId].eType = eType

\* the oracles of addExecutor under which cbDispatch answers eType for
\* taskId, cbSendTask accepts and cbTaskError does not raise
StillFor(eId, taskId, eType) ==
  {o \in AddExecutorOracles(eId) :
     o.next[taskId] = eType /\ ~o.err /\ \A e \in Executors : o.send[e]}

\* after addExecutor( eType, eId ): taskId left the freezer and was sent to
\* eId, which holds it, or waits in the queue of eType behind the tasks that
\* fill eId
Defrosted(r, eId, eType, taskId) ==
  /\ taskId \notin Range(r.taskFreezer)
  /\ \/ eId \in SentTo(r, taskId) /\ eId \in ExecPlaces(r, taskId)
     \/ ES_freeSlots(r, eId) = 0 /\ taskId \in Range(QueueOf(r, eType))

\* C17 (freeze then connect): in a run in which no call raised, with
\* freezeOnUnknownExecutor set, addTask of a task for which cbDispatch answers
\* a type that never had an executor leaves the task in the freezer with that
\* type recorded; and when a task is in the freezer with the type Z recorded
\* and Z never had an executor, the call addExecutor( Z, eId, n ), during
\* which cbDispatch answers Z for the task, cbSendTask accepts and
\* cbTaskError does not raise, takes the task out of the freezer whatever its
\* age and sends it to eId before it returns (or leaves it in the queue of Z
\* when tasks defrosted before it fill eId).
C17_FreezeThenConnect ==
  ~raisedBefore =>
    /\ freezeOnUnknownExecutor =>
         \A t \in Tasks \ (DOMAIN tasks \cup Frozen) : \A o \in AddTaskOracles(t) :
           o.next[t] \in Types \ DOMAIN execTypes =>
             /\ FreezerPlaces(D_addTask(Cur, o, t, 1), t) # {}
             /\ t \in DOMAIN D_addTask(Cur, o, t, 1).tasks
             /\ D_addTask(Cur, o, t, 1).tasks[t].eType = o.next[t]
    /\ \A eType \in Types \ DOMAIN execTypes, eId \in Executors \ Connected, mt \in 0..MaxCap :
         \A t \in Tasks : FrozenFor(t, eType) =>
           \A o \in StillFor(eId, t, eType) :
             Defrosted(D_addExecutor(Cur, o, eType, eId, mt), eId, eType, t)

\* C17, the state in which the task is not sent: removeTask left the id of a
\* waiting task in the queue of another type, the task was added again and
\* frozen for a type that never had an executor; addExecutor of that type
\* takes it out of the freezer, calls cbDispatch and sends it to nobody
C17_DefrostedNotSent ==
  \E eType \in Types \ DOMAIN execTypes, eId \in Executors \ Connected, t \in DOMAIN tasks :
    /\ ~raisedBefore
    /\ FrozenFor(t, eType)
    /\ QueuePlaces(Cur, t) # {}
    /\ \E o \in StillFor(eId, t, eType) :
         /\ ~Raised(D_addExecutor(Cur, o, eType, eId, 1))
         /\ Calls(D_addExecutor(Cur, o, eType, eId, 1), "nextStage", t) # {}
         /\ SentTo(D_addExecutor(Cur, o, eType, eId, 1), t) = {}
         /\ FreezerPlaces(D_addExecutor(Cur, o, eType, eId, 1), t) = {}
         /\ t \notin Range(QueueOf(D_addExecutor(Cur, o, eType, eId, 1), eType))

\* the connected executors of a type
ConnectedOf(eType) == {e \in Connected : idMap[e] = eType}

\* what __dispatchTask is to do with taskId when its type has no connected
\* executor: no queue holds it; it is in the freezer and in the table if
\* freezeOnUnknownExecutor is set, and out of the table otherwise
FrozenOrForgotten(r, taskId) ==
  /\ QueuePlaces(r, taskId) = {}
  /\ IF r.freezeOnUnknownExecutor
     THEN taskId \in DOMAIN r.tasks /\ FreezerPlaces(r, taskId) # {}
     ELSE taskId \notin DOMAIN r.tasks

\* C18 (dispatch to a type with zero connected executors): when cbDispatch
\* answers, for a task that addTask adds or that its executor reports, a type
\* that has no connected executor, be it that none ever connected or that all
\* were removed, the call does not queue the task: it leaves it in the freezer
\* if freezeOnUnknownExecutor is set, and removes it from the task table
\* otherwise.
C18_NoExecutorOfType ==
  /\ \A t \in Tasks \ DOMAIN tasks : QueuePlaces(Cur, t) = {} =>
       \A o \in AddTaskOracles(t) :
         (o.next[t] \in Types /\ ConnectedOf(o.next[t]) = {}) =>
           FrozenOrForgotten(D_addTask(Cur, o, t, 1), t)
  /\ \A eId \in Connected : \A t \in HeldBy(eId) \cap DOMAIN tasks :
       (QueuePlaces(Cur, t) = {} /\ taskInExec[t] = eId) =>
         \A o \in ReportOracles(eId, t, {TRUE}) :
           (o.next[t] \in Types /\ ConnectedOf(o.next[t]) = {}) =>
             FrozenOrForgotten(D_taskProcessed(Cur, o, eId, t, NoObj), t)

\* C18, the state in which the task is queued: the executors of a type were
\* all removed, and addTask of a task for which cbDispatch answers that type
\* puts the task in the queue of the type, where no executor takes it
C18_QueuedForNobody ==
  \E t \in Tasks \ DOMAIN tasks : \E o \in AddTaskOracles(t) :
    /\ QueuePlaces(Cur, t) = {}
    /\ o.next[t] \in DOMAIN execTypes
    /\ ConnectedOf(o.next[t]) = {}
    /\ execTypes[o.next[t]] = 0
    /\ ~Raised(D_addTask(Cur, o, t, 1))
    /\ t \in Range(QueueOf(D_addTask(Cur, o, t, 1), o.next[t]))
    /\ FreezerPlaces(D_addTask(Cur, o, t, 1), t) = {}
    /\ ExecPlaces(D_addTask(Cur, o, t, 1), t) = {}

\* the threads that are inside removeTask( taskId ), from the pop of the task
\* table to self.__states.removeTask
Removing(taskId) ==
  {th \in Threads : thr[th].rm = taskId /\ thr[th].at \in {"rmFind", "rmQueue", "rmState"}}

\* the threads whose removeTask( taskId ) returned
RemovedBy(taskId) == {th \in Threads : thr[th].rm = taskId /\ thr[th].at = "removed"}

\* C19 (atomic pop/assign and rollback): while a thread is inside
\* removeTask( t ), t is not at once in a queue and in the assigned set of an
\* executor; and when removeTask( t ) has returned, no thread is inside a
\* call, and t was not added again, t is in no queue and in no assigned set.
C19_AtomicPopAssign ==
  \A t \in Tasks :
    /\ Removing(t) # {} => ~(QueuePlaces(Cur, t) # {} /\ ExecPlaces(Cur, t) # {})
    /\ (/\ RemovedBy(t) # {}
        /\ \A th \in Threads : thr[th].at \in {"idle", "removed"}
        /\ t \notin DOMAIN tasks)
         => QueuePlaces(Cur, t) = {} /\ ExecPlaces(Cur, t) = {}

\* C19, the state after the race: removeTask( t ) found t with an executor,
\* which is still connected, so out of the queues, and returned; the send
\* that had popped t was refused, pushed t back and returned; t is not in the
\* table and waits in a queue
C19_RolledBackAfterRemoval ==
  \E t \in Tasks \ DOMAIN tasks : \E th \in RemovedBy(t) :
    /\ thr[th].eId \in Connected
    /\ \A th2 \in Threads \ {th} : thr[th2].at = "idle"
    /\ QueuePlaces(Cur, t) # {}
    /\ ExecPlaces(Cur, t) = {}

\* the place of a mutex in the order executors, tasks, freezer,
\* ExecutorState, ExecutorQueues
LockRank(l) ==
  CASE l = ExecutorsLock -> 1 [] l = TasksLock -> 2 [] l = FreezerLock -> 3
    [] l = StatesLock -> 4 [] l = QueuesLock -> 5

\* the thread is at an acquire of a lock that is held
Blocked(th) ==
  /\ thr[th].todo # <<>>
  /\ Head(thr[th].todo)[1] = "acquire"
  /\ Holder(Head(thr[th].todo)[2]) # {}

\* th waits for a thread that waits for a thread ... n times over
RECURSIVE WaitsAlong(_, _)
WaitsAlong(th, n) ==
  IF n = 0 THEN TRUE
  ELSE Blocked(th) /\ \E th2 \in Holder(Head(thr[th].todo)[2]) : WaitsAlong(th2, n - 1)

\* C20 (lock ordering and deadlock freedom): a thread holds the mutexes it
\* holds in the order executors, tasks, freezer, ExecutorState,
\* ExecutorQueues in which it acquired them; a thread whose call has ended,
\* by a return or by an exception, holds no mutex; and no thread waits for a
\* mutex along a cycle of threads that wait for each other.
C20_LockOrder ==
  \A th \in Threads :
    /\ \A i, j \in DOMAIN thr[th].holds :
         i < j => LockRank(thr[th].holds[i]) < LockRank(thr[th].holds[j])
    /\ thr[th].todo = <<>> => thr[th].holds = <<>>
    /\ ~WaitsAlong(th, NumThreads + 1)

\* C20, its case: a thread holds the executors lock and, inside it, the lock
\* of ExecutorQueues, while another thread waits for the lock of
\* ExecutorQueues
C20_TwoHeldOneWaits ==
  \E th, th2 \in Threads :
    /\ th # th2
    /\ thr[th].holds = <<ExecutorsLock, QueuesLock>>
    /\ Blocked(th2)
    /\ Head(thr[th2].todo) = Acq(QueuesLock)

\* the threads that are about to call a callback
Calling == {th \in Threads : thr[th].todo # <<>> /\ Head(thr[th].todo)[1] = "callback"}

\* C21 (callbacks run outside the locks): a thread that is about to call a
\* callback holds none of the executors lock, the tasks lock and the freezer
\* lock, whatever the path that brought it there.
C21_CallbacksOutsideLocks ==
  \A th \in Calling :
    Range(thr[th].holds) \cap {ExecutorsLock, TasksLock, FreezerLock} = {}

\* C21, its case: a thread is about to call cbTaskError inside a sweep of
\* the freezer (unfreezeTasks is still to be resumed) while another thread
\* holds the freezer lock
C21_ErrorInsideSweep ==
  \E th, th2 \in Threads :
    /\ th \in Calling
    /\ Head(thr[th].todo) = Cb("taskError")
    /\ Do("unfreezeTasks") \in Range(thr[th].todo)
    /\ FreezerLock \in Range(thr[th2].holds)

\* what one sweep of the freezer is to leave behind, S being the frozen tasks
\* it is to defrost: the sweep ends without raising, cbDispatch was called
\* once for every task of S and for no other frozen task, and the other
\* frozen tasks are in the freezer in the order they had
Swept(r, S) ==
  /\ ~Raised(r)
  /\ \A t \in Frozen :
       Cardinality(Calls(r, "nextStage", t)) = IF t \in S THEN 1 ELSE 0
  /\ SelectSeq(r.taskFreezer, LAMBDA t : t \in Frozen \ S)
       = SelectSeq(taskFreezer, LAMBDA t : t \notin S)

\* the types __unfreezeTasks is called with: none, from addTask, or a type
\* of __execTypes, from __fillExecutors
Hints == {NoType} \cup DOMAIN execTypes
ToDefrost(eType) ==
  {t \in Frozen \cap DOMAIN tasks : (eType # NoType /\ tasks[t].eType = eType) \/ Aged(t)}

\* C22 (defrost conditions): one sweep __unfreezeTasks( eType ) takes out of
\* the freezer and dispatches, once each, exactly the frozen tasks that were
\* frozen with eType recorded or have been frozen for more than FreezeAge;
\* the other frozen tasks stay in the freezer in their order, and the sweep
\* ends.
C22_DefrostConditions ==
  \A eType \in Hints : \A o \in Oracles(Defrostable, Connected, {TRUE}, {}) :
    Swept(UnfreezeTasks(Cur, o, eType), ToDefrost(eType))

\* a sweep for the type of a connected executor whose cbSendTask refuses the
\* task: cbTaskError is well-behaved, one frozen task of that type has been
\* dispatched, and the sweep raises
C22_SweepAborted ==
  \E eType \in Hints \ {NoType} : \E o \in Oracles(Defrostable, Connected, {TRUE}, {}) :
    /\ ~o.err
    /\ UnfreezeTasks(Cur, o, eType).exc = "AttributeError"
    /\ \E t \in ToDefrost(eType) : Calls(UnfreezeTasks(Cur, o, eType), "nextStage", t) # {}

\* what a call that dispatched taskId is to leave behind when cbDispatch failed
\* and failed dispatches are not frozen: the call returns S_ERROR, the task
\* is in no table, queue, executor or freezer, and cbTaskError was called
\* once for it
Dropped(r, taskId) ==
  /\ ~Raised(r)
  /\ r.ret = S_ERROR
  /\ taskId \notin DOMAIN r.tasks
  /\ Residences(r, taskId) = 0
  /\ taskId \notin DOMAIN r.taskInQueue /\ taskId \notin DOMAIN r.taskInExec
  /\ Cardinality(Calls(r, "taskError", taskId)) = 1

\* C23 (failed dispatch without freezing): with freezeOnFailedDispatch off,
\* an addTask of a new task, a taskProcessed and a retryTask whose cbDispatch
\* fails for their task remove the task from the table and from every place,
\* call cbTaskError once for it and return an error; the task is not frozen.
C23_FailedDispatchDropped ==
  ~freezeOnFailedDispatch =>
    /\ \A t \in Tasks \ DOMAIN tasks : \A o \in FailingDispatches(t) :
         Dropped(D_addTask(Cur, o, t, 1), t)
    /\ \A eId \in Executors : \A t \in HeldBy(eId) \cap DOMAIN tasks :
         \A o \in ReportOracles(eId, t, {TRUE}) :
           o.next[t] = Fail =>
             /\ Dropped(D_taskProcessed(Cur, o, eId, t, NoObj), t)
             /\ Dropped(D_retryTask(Cur, o, eId, t), t)

\* freezeOnFailedDispatch is off, cbDispatch fails for a new task and
\* cbTaskError raises: the task is removed and reported, and addTask raises
\* instead of returning S_ERROR
C23_ErrorNotReturned ==
  /\ ~freezeOnFailedDispatch
  /\ \E t \in Tasks \ DOMAIN tasks : \E o \in FailingDispatches(t) :
       /\ o.err
       /\ Raised(D_addTask(Cur, o, t, 1))
       /\ t \notin DOMAIN D_addTask(Cur, o, t, 1).tasks
       /\ Cardinality(Calls(D_addTask(Cur, o, t, 1), "taskError", t)) = 1

\* C24 (repeated push): pushTask( eType, taskId, ahead ) for a task that is
\* already queued changes no queue and no entry of the reverse index,
\* whatever ahead is, and returns the length of the queue of eType when the
\* task is queued for eType and 0 when it is queued for another type.
C24_RepeatedPush ==
  \A taskId \in DOMAIN taskInQueue : \A eType \in Types, ahead \in BOOLEAN :
    LET r == EQ_pushTask(Cur, eType, taskId, ahead)
    IN  /\ ~Raised(r)
        /\ r.queues = queues /\ r.taskInQueue = taskInQueue
        /\ r.ret = RInt(IF taskInQueue[taskId] = eType THEN Len(queues[eType]) ELSE 0)

\* a task queued behind another one is pushed again with ahead set, once for
\* its type and once for another type: the answers are 2 and 0
C24_PushedAgainAhead ==
  \E taskId \in DOMAIN taskInQueue : \E eType \in Types \ {taskInQueue[taskId]} :
    /\ Len(queues[taskInQueue[taskId]]) = 2
    /\ queues[taskInQueue[taskId]][2] = taskId
    /\ EQ_pushTask(Cur, taskInQueue[taskId], taskId, TRUE).ret = RInt(2)
    /\ EQ_pushTask(Cur, eType, taskId, TRUE).ret = RInt(0)

\* the executors ExecutorState has registered
Registered == DOMAIN maxTasks \cap DOMAIN execTasks

\* C25 (unknown executor removed): ExecutorState.removeExecutor( eId ) for an
\* eId that is not registered raises nothing, returns an empty list and
\* leaves __typeToId, __maxTasks, __execTasks and __taskInExec as they were.
C25_UnknownRemovedSilently ==
  \A eId \in Executors \ Registered : \A tOrder \in Perms(Tasks) :
    LET r == ES_removeExecutor(Cur, eId, tOrder)
    IN  /\ ~Raised(r)
        /\ r.ret = RList(<<>>)
        /\ r.typeToId = typeToId /\ r.maxTasks = maxTasks
        /\ r.execTasks = execTasks /\ r.taskInExec = taskInExec

\* an executor holds a task and removeExecutor is called for the other eId,
\* which is not registered: the call raises KeyError
C25_UnknownRaises ==
  /\ ~raisedBefore
  /\ \E e \in Registered : execTasks[e] # {}
  /\ \E eId \in Executors \ Registered :
       ES_removeExecutor(Cur, eId, IdOrder(NumTasks)).exc = "KeyError"

\* C26 (full and freeSlots): in every state the calls of ExecutorState reach,
\* full( eId ) is true exactly when freeSlots( eId ) is 0, freeSlots( eId )
\* is not negative, and for an eId that is not registered full is true and
\* freeSlots is 0.
C26_FullIsNoFreeSlot ==
  \A eId \in Executors :
    /\ ES_full(Cur, eId) <=> ES_freeSlots(Cur, eId) = 0
    /\ ES_freeSlots(Cur, eId) >= 0
    /\ eId \notin Registered => ES_full(Cur, eId) /\ ES_freeSlots(Cur, eId) = 0

\* addTask gave an executor more tasks than its maximum: it is full and its
\* free slots are negative
C26_NegativeFreeSlots ==
  /\ ~raisedBefore
  /\ \E eId \in Registered : ES_full(Cur, eId) /\ ES_freeSlots(Cur, eId) < 0

\* C27 (reverse index of ExecutorState): after any sequence of addExecutor,
\* removeExecutor, addTask and removeTask, getExecutorOfTask( t ) is e
\* exactly when e is registered and t is in its assigned set, and no task is
\* in two assigned sets.
C27_ReverseIndex ==
  \A t \in Tasks :
    /\ \A e \in Executors :
         ES_getExecutorOfTask(Cur, t) = e <=> (e \in Registered /\ t \in execTasks[e])
    /\ Cardinality(ExecPlaces(Cur, t)) <= 1

\* no call raised; one task is in the assigned sets of two executors, and the
\* reverse index names one of them
C27_AssignedTwice ==
  /\ ~raisedBefore
  /\ \E t \in Tasks :
       /\ Cardinality(ExecPlaces(Cur, t)) = 2
       /\ ES_getExecutorOfTask(Cur, t) \in ExecPlaces(Cur, t)

\* C28 (the fill loop ends): __fillExecutors( eType ), with or without the
\* sweep of the freezer, returns without raising in every state and for
\* every answer of cbSendTask, cbTaskError behaving: also when the send of
\* the head of the queue to an executor with a free slot fails, and when the
\* head of the queue is no longer in the task table.
C28_FillReturns ==
  \A eType \in Hints \ {NoType}, defrozeIfNeeded \in BOOLEAN :
    \A o \in Oracles(Defrostable, Connected, {TRUE}, {}) :
      ~o.err => ~Raised(FillExecutors(Cur, o, eType, defrozeIfNeeded))

\* no call raised so far; a fill for the type of a connected executor
\* defrosts a task, queues it, has the send refused and raises
C28_RefusedSendRaises ==
  /\ ~raisedBefore
  /\ \E eType \in Hints \ {NoType} : \E o \in Oracles(Defrostable, Connected, {TRUE}, {}) :
       /\ ~o.err
       /\ \E e \in Connected : ~o.send[e] /\ idMap[e] = eType /\ ES_freeSlots(Cur, e) > 0
       /\ FillExecutors(Cur, o, eType, TRUE).exc = "AttributeError"

\* no connected executor has a free slot while a task waits for its type
Conserved(d) ==
  \A e \in DOMAIN d.idMap : ES_freeSlots(d, e) > 0 => QueueOf(d, d.idMap[e]) = <<>>
Accepting(S) == {o \in S : \A e \in Executors : o.send[e]}
\* a call that returned, with cbSendTask accepting, leaves no slot unused
Refilled(r) == ~Raised(r) => Conserved(r)

\* C29 (work conservation): from a state in which no executor with a free
\* slot has a task waiting for its type, every call of addTask, removeTask,
\* addExecutor, removeExecutor, taskProcessed and retryTask that returns,
\* with cbSendTask accepting every task, leaves such a state again: the slot
\* a call frees is given to the head of the queue of the executor's type.
C29_WorkConserved ==
  (~raisedBefore /\ Conserved(Cur)) =>
    /\ \A t \in Tasks : \A o \in Accepting(AddTaskOracles(t)) :
         Refilled(D_addTask(Cur, o, t, 1))
    /\ \A t \in Tasks : \A o \in Accepting(RemoveTaskOracles(t)) :
         Refilled(D_removeTask(Cur, o, t))
    /\ \A eType \in Types, eId \in Executors, mt \in 1..MaxCap :
         \A o \in Accepting(AddExecutorOracles(eId)) :
           Refilled(D_addExecutor(Cur, o, eType, eId, mt))
    /\ \A eId \in Executors : \A o \in Accepting(RemoveExecutorOracles(eId)) :
         Refilled(D_removeExecutor(Cur, o, eId))
    /\ \A eId \in Executors, t \in Tasks :
         \A o \in Accepting(ReportOracles(eId, t, BOOLEAN)) :
           /\ Refilled(D_taskProcessed(Cur, o, eId, t, NoObj))
           /\ Refilled(D_retryTask(Cur, o, eId, t))

\* no call raised, no slot is unused and every queued task is in the table;
\* an executor that holds one task while another one waits for its type
\* calls retryTask, cbDispatch answers that the task has no further stage,
\* cbSendTask would accept: retryTask returns S_OK, the executor is idle and
\* the other task still waits
C29_SlotLeftFree ==
  /\ ~raisedBefore /\ Conserved(Cur)
  /\ \A ty \in DOMAIN queues : Range(queues[ty]) \subseteq DOMAIN tasks
  /\ \E eId \in Connected : \E t \in HeldBy(eId) \cap DOMAIN tasks :
       \E o \in Accepting(ReportOracles(eId, t, {TRUE})) :
         LET r == D_retryTask(Cur, o, eId, t)
         IN  /\ o.next[t] = Done
             /\ ~Raised(r) /\ IsOK(r.ret)
             /\ ES_freeSlots(r, eId) > 0
             /\ QueueOf(r, idMap[eId]) # <<>>
             /\ Head(QueueOf(r, idMap[eId])) \in DOMAIN r.tasks

\* the threads whose sweep is at a freezer entry of a task that is not in
\* the task table
AtStale == {th \in Threads : /\ thr[th].at = "sweep"
                             /\ thr[th].iP < Len(taskFreezer)
                             /\ taskFreezer[thr[th].iP + 1] \notin DOMAIN tasks}

\* C30 (stale freezer entries): a sweep that comes to a freezer entry whose
\* task a concurrent removeTask has taken out of the task table takes the
\* entry out of the freezer, raises nothing and goes on with the entry that
\* follows; the task is not dispatched.
C30_StaleEntryDropped ==
  \A th \in AtStale :
    LET r == SweepEntry(Cur, thr[th], thr[th].eType)
    IN  /\ ~Raised(r)
        /\ r.taskFreezer = RemoveAt(taskFreezer, thr[th].iP + 1)
        /\ r.ret = RInt(NoTask)
        /\ r.log = <<>>

\* no call raised so far; a removeTask has taken its task out of the table
\* and has not come to the freezer yet, another thread's sweep is at the
\* entry of that task, a second frozen task follows it, and the sweep raises
C30_SweepMeetsRemoved ==
  /\ ~raisedBefore
  /\ \E th \in AtStale : \E th2 \in Threads \ {th} :
       /\ thr[th2].at \in {"rmFind", "rmQueue", "rmState", "rmFreezer"}
       /\ thr[th2].rm = taskFreezer[thr[th].iP + 1]
       /\ thr[th].iP + 1 < Len(taskFreezer)
       /\ SweepEntry(Cur, thr[th], thr[th].eType).exc = "AttributeError"

====
